---- MODULE Spec2Model ----
(***************************************************************************)
(* Model of the anima pipeline toolkit: the Houdini-to-Arnold geometry     *)
(* cache exporter (anima/render/arnold/h2a.py), its base85 codec and the   *)
(* Maya environment (anima/dcc/mayaEnv/__init__.py: reference resolution,  *)
(* reference updates, save_as), the edit objects (anima/edit.py) and the   *)
(* shot tools of the Resolve environment (anima/env/resolve/shot_tools.py)  *)
(* and the task tree view (anima/ui/views/task.py).                        *)
(*                                                                         *)
(* Strings of packed binary data are sequences of bytes (0..255).  Encoded *)
(* text is a sequence of symbols: 0..84 are the indices of the characters  *)
(* of the 85-character alphabet, NL is the newline character.              *)
(***************************************************************************)
EXTENDS Integers, Sequences, FiniteSets, TLC

VARIABLES
  node,    \* the Houdini node: its geometry and its inputs
  kwargs,  \* the arguments of the call
  ret,     \* what the last call returned or raised
  pc,      \* the last call made
  files,   \* the files written: path -> content
  dirs,    \* the directories made
  calls,   \* the number of calls made
  buf,     \* the byte buffer handed to the base85 encoder, or the Buffer object
  scene,   \* the Maya scene: its references and their versions
  DBSession, \* the database session: what was added and what was committed
  staging, \* the staging area of the publishers
  timeline, \* the clips of the Resolve timeline
  clip,    \* an object of anima.edit: a Sequence, a Clip or a File
  tasks    \* the tasks of the project: their statuses and dependencies

vars == <<node, kwargs, ret, pc, files, dirs, calls, buf, scene,
          DBSession, staging, timeline, clip, tasks>>

\* the state of each part of the toolkit, and all that is not of that part
hou_vars == <<node, kwargs, files, dirs, calls>>
session_vars == <<DBSession, staging>>
edit_vars == <<timeline, clip, tasks>>
not_hou_vars == <<buf, scene, session_vars, edit_vars>>
not_codec_vars == <<node, kwargs, files, dirs, calls, scene, session_vars, edit_vars>>
not_maya_vars == <<node, kwargs, files, dirs, calls, buf, session_vars, edit_vars>>

(***************************************************************************)
(* Bounds of the model.                                                    *)
(***************************************************************************)
MaxCurves == 3
MaxPts == 3
MaxBigCurves == 2
BigPts == 501
MidPts == 140
MaxPathLen == 6
MaxCalls == 2
MaxInputs == 3
MaxBoundsCurves == 1
MaxBufLen == 8
MaxVersions == 3
MaxEdited == 1
MaxNodes == 1
MaxRefs == 2
MaxDuration == 2
MaxNames == 1
MaxShots == 3
MaxClips == 1
MaxTasks == 3
MaxFiles == 4
MaxAppends == 3
MaxBufferSize == 2

(***************************************************************************)
(* Program constants.                                                      *)
(***************************************************************************)
ChunkWidth == 500
RadiusFlushLimit == 1000
IdsPerLine == 500
PointBytes == 12
FloatBytes == 4

NL == 85
None == "None"

\* the parts of the toolkit a specification leaves alone
NoSession == DBSession = None /\ staging = None
NoEdit == timeline = None /\ clip = None /\ tasks = None

Min(a, b) == IF a < b THEN a ELSE b

\* a string given by its characters, held as a tuple
Str(f) == f \o << >>

RECURSIVE SumSeq(_)
SumSeq(s) == IF s = << >> THEN 0 ELSE Head(s) + SumSeq(Tail(s))

RECURSIVE JoinSeqs(_)
\* ''.join(list of strings)
JoinSeqs(ss) == IF ss = << >> THEN << >> ELSE Head(ss) \o JoinSeqs(Tail(ss))

RECURSIVE SeqsUpTo(_, _)
\* all sequences over S of length at most n
SeqsUpTo(S, n) ==
  IF n = 0 THEN {<< >>}
  ELSE LET shorter == SeqsUpTo(S, n - 1)
       IN shorter \cup {Append(s, x) : s \in {t \in shorter : Len(t) = n - 1}, x \in S}

(***************************************************************************)
(* The geometry of a node (hou.Geometry).  prims[k] is the number of       *)
(* vertices of primitive k; every vertex has a point of its own and points *)
(* are numbered in primitive order, then vertex order.  Attribute values   *)
(* are 32 bit patterns that differ from point to point and from attribute  *)
(* to attribute, so that a lost, repeated or misplaced value shows.        *)
(***************************************************************************)
primitivecount(geo) == Len(geo.prims)
pointcount(geo) == SumSeq(geo.prims)
vertexcount(geo) == SumSeq(geo.prims)

\* struct.pack('f', w) of the value whose bit pattern is w (native byte order)
pack(w) == << w % 256, (w \div 256) % 256, (w \div 65536) % 256, (w \div 16777216) % 256 >>

AttribBase(name) ==
  CASE name = "P" -> 0
    [] name = "pprime" -> 1048576
    [] name = "width" -> 2097152
    [] name = "uv_u" -> 3145728
    [] name = "uv_v" -> 4194304

\* the packed floats number first .. first + n - 1 of an attribute
PackedValues(name, first, n) ==
  Str([j \in 1..(FloatBytes * n) |->
         pack(AttribBase(name) + first + ((j - 1) \div FloatBytes))[((j - 1) % FloatBytes) + 1]])

\* geo.pointFloatAttribValuesAsString(name): tuple_size floats per point
pointFloatAttribValuesAsString(geo, name, tuple_size) ==
  PackedValues(name, 0, tuple_size * pointcount(geo))

\* geo.primFloatAttribValuesAsString(name): one float per primitive
primFloatAttribValuesAsString(geo, name) ==
  PackedValues(name, 0, primitivecount(geo))

\* number of the first vertex of primitive p (0 based, p from 1)
FirstVertex(geo, p) == SumSeq(SubSeq(geo.prims, 1, p - 1))

\* ''.join(pack('f', vertex.attribValue('width')) for vertex in prim.vertices())
PrimWidths(geo, p) == PackedValues("width", FirstVertex(geo, p), geo.prims[p])

(***************************************************************************)
(* base85: four bytes, read as one big-endian 32 bit number, become five   *)
(* characters of the 85-character alphabet, most significant digit first.  *)
(* A buffer whose length is no multiple of four is rejected.               *)
(***************************************************************************)
\* The 32 bit number of bytes 4g+1 .. 4g+4 of text is Hi16 * 65536 + Lo16;
\* the digits are taken by long division, so no intermediate value passes
\* 31 bits.
Hi16(text, g) == text[4 * g + 1] * 256 + text[4 * g + 2]
Lo16(text, g) == text[4 * g + 3] * 256 + text[4 * g + 4]

\* the number without its last base 85 digit, and that digit
Quot85(text, g) ==
  (Hi16(text, g) \div 85) * 65536 + (((Hi16(text, g) % 85) * 65536 + Lo16(text, g)) \div 85)
Rem85(text, g) == ((Hi16(text, g) % 85) * 65536 + Lo16(text, g)) % 85

\* digit k (0 the most significant, 4 the least) of the number of group g
Digit(text, g, k) ==
  CASE k = 4 -> Rem85(text, g)
    [] k = 3 -> Quot85(text, g) % 85
    [] k = 2 -> (Quot85(text, g) \div 85) % 85
    [] k = 1 -> (Quot85(text, g) \div 7225) % 85
    [] k = 0 -> (Quot85(text, g) \div 614125) % 85

arnold_b85_encode_reversed_digits(text) ==
  Str([i \in 1..(5 * (Len(text) \div 4)) |-> Digit(text, (i - 1) \div 5, 4 - ((i - 1) % 5))])

\* the encoding of a buffer of whole groups of four bytes
arnold_b85_encode(text) ==
  Str([i \in 1..(5 * (Len(text) \div 4)) |-> Digit(text, (i - 1) \div 5, (i - 1) % 5)])

\* the number written by the first four characters of group g
Lead85(text, g) ==
  text[5 * g + 1] * 614125 + text[5 * g + 2] * 7225 + text[5 * g + 3] * 85 + text[5 * g + 4]

\* the low and the high 16 bits of Lead85 * 85 + the last character
DecLow(text, g) == (Lead85(text, g) % 65536) * 85 + text[5 * g + 5]
DecHi16(text, g) == ((Lead85(text, g) \div 65536) * 85 + (DecLow(text, g) \div 65536)) % 65536
DecLo16(text, g) == DecLow(text, g) % 65536

arnold_b85_decode(text) ==
  Str([j \in 1..(4 * (Len(text) \div 5)) |->
          LET g == (j - 1) \div 4
              k == (j - 1) % 4
          IN CASE k = 0 -> DecHi16(text, g) \div 256
               [] k = 1 -> DecHi16(text, g) % 256
               [] k = 2 -> DecLo16(text, g) \div 256
               [] k = 3 -> DecLo16(text, g) % 256])

\* a call of the encoder: a buffer that is no whole number of groups of four
\* bytes is rejected
b85_encode_call(text) ==
  IF Len(text) % 4 # 0 THEN [status |-> "ValueError"]
  ELSE [status |-> "ok", encoded |-> arnold_b85_encode(text)]

(***************************************************************************)
(* re.sub("(.{500})", "\\1\n", text, 0): a newline after every full run of *)
(* 500 characters ('.' matches every character of the alphabet).           *)
(***************************************************************************)
split500(text) ==
  Str([i \in 1..(Len(text) + (Len(text) \div ChunkWidth)) |->
         IF i % (ChunkWidth + 1) = 0 THEN NL ELSE text[i - (i \div (ChunkWidth + 1))]])

(***************************************************************************)
(* curves2ass                                                              *)
(***************************************************************************)
\* zip(*[iter(s)] * k): the full blocks of k items of s; what is left over
\* after the last full block is dropped; zip() of no iterator is empty
zip_blocks(s, k) ==
  IF k = 0 THEN << >>
  ELSE [j \in 1..(Len(s) \div k) |-> SubSeq(s, (j - 1) * k + 1, j * k)]

\* lambda x: '%s%s%s' % (x[:12], x, x[-12:])
repeat_ends(x) == SubSeq(x, 1, PointBytes) \o x \o SubSeq(x, Len(x) - PointBytes + 1, Len(x))

RECURSIVE radius_walk_stale_append(_, _, _, _, _, _)
\* a walk whose append stays bound to the list that was flushed
radius_walk_stale_append(geo, n, p, radius_i, radius_str_buffer, radius_file_str) ==
  IF p > Len(geo.prims) THEN radius_file_str \o radius_str_buffer
  ELSE IF radius_i + n >= RadiusFlushLimit
       THEN radius_walk_stale_append(geo, n, p + 1, 0, << >>,
                                     radius_file_str \o radius_str_buffer)
       ELSE radius_walk_stale_append(geo, n, p + 1, radius_i + n,
                                     radius_str_buffer \o PrimWidths(geo, p), radius_file_str)

RECURSIVE radius_walk(_, _, _, _, _, _)
\* the loop over geo.prims() from primitive p on; n is
\* real_number_of_points_in_one_curve
radius_walk(geo, n, p, radius_i, radius_str_buffer, radius_file_str) ==
  IF p > Len(geo.prims) THEN radius_file_str \o radius_str_buffer
  ELSE IF radius_i + n >= RadiusFlushLimit
       THEN radius_walk(geo, n, p + 1, 0, PrimWidths(geo, p),
                        radius_file_str \o radius_str_buffer)
       ELSE radius_walk(geo, n, p + 1, radius_i + n,
                        radius_str_buffer \o PrimWidths(geo, p), radius_file_str)

extend_for_motion_single(data, export_motion) == data

\* one copy of data, or two for motion blur: '%(data)s%(data)s'
extend_for_motion(data, export_motion) == IF export_motion THEN data \o data ELSE data

identity_matrix == << <<1, 0, 0, 0>>, <<0, 1, 0, 0>>, <<0, 0, 1, 0>>, <<0, 0, 0, 1>> >>

curves2ass(geo, export_motion) ==
  LET sample_count == IF export_motion THEN 2 ELSE 1
      number_of_curves == primitivecount(geo)
      real_point_count == pointcount(geo)
  IN
  IF number_of_curves = 0 THEN [status |-> "ZeroDivisionError"]
  ELSE
  LET point_count == real_point_count + number_of_curves * 2
      radius_count == real_point_count
      real_number_of_points_in_one_curve == real_point_count \div number_of_curves
      number_of_points_in_one_curve == real_number_of_points_in_one_curve + 2
      number_of_points_per_curve == [c \in 1..number_of_curves |-> number_of_points_in_one_curve]
      curve_ids == [c \in 1..number_of_curves |-> c - 1]
      radius == IF geo.has_width
                THEN pointFloatAttribValuesAsString(geo, "width", 1)
                ELSE radius_walk(geo, real_number_of_points_in_one_curve, 1, 0, << >>, << >>)
      positions == IF export_motion
                   THEN pointFloatAttribValuesAsString(geo, "P", 3)
                          \o pointFloatAttribValuesAsString(geo, "pprime", 3)
                   ELSE pointFloatAttribValuesAsString(geo, "P", 3)
      blocks == zip_blocks(positions, real_number_of_points_in_one_curve * FloatBytes * 3)
      point_positions == JoinSeqs([j \in 1..Len(blocks) |-> repeat_ends(blocks[j])])
      encoded_point_positions == arnold_b85_encode(point_positions)
      encoded_radius == arnold_b85_encode(radius)
      encoded_u == arnold_b85_encode(primFloatAttribValuesAsString(geo, "uv_u"))
      encoded_v == arnold_b85_encode(primFloatAttribValuesAsString(geo, "uv_v"))
  IN [status |-> "ok",
      type |-> "curves",
      sample_count |-> sample_count,
      headers |-> [num_points |-> <<number_of_curves, sample_count>>,
                   points |-> <<point_count, sample_count>>,
                   radius |-> <<radius_count, sample_count>>,
                   matrix |-> <<1, sample_count>>,
                   uparamcoord |-> <<number_of_curves, sample_count>>,
                   vparamcoord |-> <<number_of_curves, sample_count>>,
                   curve_id |-> <<number_of_curves, sample_count>>],
      number_of_points_per_curve |-> extend_for_motion(number_of_points_per_curve, export_motion),
      gathered_point_positions |-> positions,
      raw_point_positions |-> point_positions,
      raw_radius |-> radius,
      encoded_point_positions |-> encoded_point_positions,
      encoded_radius |-> encoded_radius,
      encoded_u |-> encoded_u,
      encoded_v |-> encoded_v,
      point_positions |-> split500(encoded_point_positions),
      radius |-> extend_for_motion(split500(encoded_radius), export_motion),
      matrix |-> extend_for_motion(identity_matrix, export_motion),
      uparamcoord |-> extend_for_motion(split500(encoded_u), export_motion),
      vparamcoord |-> extend_for_motion(split500(encoded_v), export_motion),
      curve_ids |-> curve_ids]

(***************************************************************************)
(* polygon2ass                                                             *)
(***************************************************************************)
\* the items of a list joined to lines: a line is closed after the counter
\* has passed 500, what is left goes to a last line
lines_of(items) ==
  [k \in 1..((Len(items) + IdsPerLine) \div (IdsPerLine + 1)) |->
     SubSeq(items, (k - 1) * (IdsPerLine + 1) + 1, Min(k * (IdsPerLine + 1), Len(items)))]

polygon2ass(geo, export_motion) ==
  LET sample_count == IF export_motion THEN 2 ELSE 1
      primitive_count == primitivecount(geo)
      point_count == pointcount(geo)
      vertex_count == vertexcount(geo)
      number_of_points_per_primitive == geo.prims
      vertex_ids == [v \in 1..vertex_count |-> v - 1]
      point_positions == IF export_motion
                         THEN pointFloatAttribValuesAsString(geo, "P", 3)
                                \o pointFloatAttribValuesAsString(geo, "pprime", 3)
                         ELSE pointFloatAttribValuesAsString(geo, "P", 3)
      encoded_point_positions == arnold_b85_encode(point_positions)
  IN [status |-> "ok",
      type |-> "polymesh",
      sample_count |-> sample_count,
      headers |-> [nsides |-> <<primitive_count, 1>>,
                   vidxs |-> <<vertex_count, 1>>,
                   vlist |-> <<point_count, sample_count>>],
      number_of_points_per_primitive |-> lines_of(number_of_points_per_primitive),
      vertex_ids |-> lines_of(vertex_ids),
      raw_point_positions |-> point_positions,
      encoded_point_positions |-> encoded_point_positions,
      point_positions |-> split500(encoded_point_positions),
      matrix |-> extend_for_motion(identity_matrix, export_motion)]

(***************************************************************************)
(* Calls of the two exporters on a node.                                   *)
(***************************************************************************)
Geometries(counts, max_prims) ==
  [prims : SeqsUpTo(counts, max_prims), has_width : BOOLEAN]

Call_curves2ass ==
  /\ pc = "ready"
  /\ ret' = curves2ass(node.geo, kwargs.export_motion)
  /\ pc' = "curves2ass"
  /\ UNCHANGED <<node, kwargs, files, dirs, calls, not_hou_vars>>

Call_polygon2ass ==
  /\ pc = "ready"
  /\ ret' = polygon2ass(node.geo, kwargs.export_motion)
  /\ pc' = "polygon2ass"
  /\ UNCHANGED <<node, kwargs, files, dirs, calls, not_hou_vars>>

InitExport(geos) ==
  /\ node \in [geo : geos, inputs : {<< >>}]
  /\ kwargs \in [path : {<< >>}, export_type : {0}, export_motion : BOOLEAN]
  /\ ret = None
  /\ pc = "ready"
  /\ files = << >>
  /\ dirs = {}
  /\ calls = 0
  /\ buf = << >>
  /\ scene = None
  /\ NoSession /\ NoEdit

NextExport == Call_curves2ass \/ Call_polygon2ass

\* small geometries, curves of any mix of lengths
Init == InitExport(Geometries(1..MaxPts, MaxCurves))

Spec == Init /\ [][NextExport]_vars

\* geometries whose buffers pass the line width and the flush limit
InitBig == InitExport(Geometries({1, MidPts, BigPts}, MaxBigCurves))

SpecBig == InitBig /\ [][NextExport]_vars

(***************************************************************************)
(* geometry2ass.  A path is a sequence of characters; files maps the path  *)
(* a file was opened with to what was written to it.                       *)
(***************************************************************************)
\* p.rfind(ch), counted from 1; 0 when ch is not in p
rfind(p, ch) ==
  LET at == {i \in 1..Len(p) : p[i] = ch}
  IN IF at = {} THEN 0 ELSE CHOOSE i \in at : \A j \in at : j <= i

\* os.path.splitext(p): the extension starts at the last dot of the last
\* component, unless only dots come before it in that component
splitext(p) ==
  LET sepIndex == rfind(p, "/")
      dotIndex == rfind(p, ".")
  IN IF /\ dotIndex > sepIndex
        /\ \E i \in (sepIndex + 1)..(dotIndex - 1) : p[i] # "."
     THEN <<SubSeq(p, 1, dotIndex - 1), SubSeq(p, dotIndex, Len(p))>>
     ELSE <<p, << >> >>

RECURSIVE split_slash(_)
\* p.split('/')
split_slash(p) ==
  LET at == {i \in 1..Len(p) : p[i] = "/"}
  IN IF at = {} THEN <<p>>
     ELSE LET i == CHOOSE k \in at : \A j \in at : k <= j
          IN <<SubSeq(p, 1, i - 1)>> \o split_slash(SubSeq(p, i + 1, Len(p)))

RECURSIVE norm_comps(_, _, _)
\* the loop of os.path.normpath over the components
norm_comps(comps, new_comps, initial_slashes) ==
  IF comps = << >> THEN new_comps
  ELSE LET comp == Head(comps)
       IN IF comp = << >> \/ comp = <<".">>
          THEN norm_comps(Tail(comps), new_comps, initial_slashes)
          ELSE IF \/ comp # <<".", ".">>
                  \/ (initial_slashes = 0 /\ new_comps = << >>)
                  \/ (new_comps # << >> /\ new_comps[Len(new_comps)] = <<".", ".">>)
               THEN norm_comps(Tail(comps), Append(new_comps, comp), initial_slashes)
               ELSE IF new_comps # << >>
                    THEN norm_comps(Tail(comps), SubSeq(new_comps, 1, Len(new_comps) - 1),
                                    initial_slashes)
                    ELSE norm_comps(Tail(comps), new_comps, initial_slashes)

RECURSIVE join_slash(_)
\* '/'.join(comps)
join_slash(comps) ==
  IF comps = << >> THEN << >>
  ELSE IF Len(comps) = 1 THEN comps[1]
       ELSE comps[1] \o <<"/">> \o join_slash(Tail(comps))

\* os.path.normpath(p)
normpath(p) ==
  IF p = << >> THEN <<".">>
  ELSE LET starts(k) == Len(p) >= k /\ \A i \in 1..k : p[i] = "/"
           initial_slashes == IF ~starts(1) THEN 0
                              ELSE IF starts(2) /\ ~starts(3) THEN 2 ELSE 1
           body == join_slash(norm_comps(split_slash(p), << >>, initial_slashes))
           path == [i \in 1..initial_slashes |-> "/"] \o body
       IN IF path = << >> THEN <<".">> ELSE path

RECURSIVE rstrip_slash(_)
rstrip_slash(p) ==
  IF p # << >> /\ p[Len(p)] = "/" THEN rstrip_slash(SubSeq(p, 1, Len(p) - 1)) ELSE p

\* os.path.dirname(p)
dirname(p) ==
  LET head == SubSeq(p, 1, rfind(p, "/"))
  IN IF head # << >> /\ \E i \in 1..Len(head) : head[i] # "/" THEN rstrip_slash(head) ELSE head

asstoc_suffix == <<".", "a", "s", "s", "t", "o", "c">>

\* lines 77-86: whether the body is gzipped, and the companion file's path
use_gzip_of(ass_path) == splitext(ass_path)[2] = <<".", "g", "z">>

asstoc_path_of_one_splitext(ass_path) == splitext(ass_path)[1] \o asstoc_suffix

asstoc_path_of(ass_path) ==
  LET parts == splitext(ass_path)
      basename == IF parts[2] = <<".", "g", "z">> THEN splitext(parts[1])[1] ELSE parts[1]
  IN basename \o asstoc_suffix

\* geo.intrinsicValue('bounds'): (xmin, xmax, ymin, ymax, zmin, zmax)
intrinsic_bounds(geo) ==
  <<geo.bounds.xmin, geo.bounds.xmax, geo.bounds.ymin,
    geo.bounds.ymax, geo.bounds.zmin, geo.bounds.zmax>>

\* lines 115-119: node_inputs[1].geometry(); node.inputs() has None where an
\* input before the last connected one is not connected
second_input_geo(nd) ==
  IF Len(nd.inputs) < 2 THEN [raised |-> "IndexError"]
  ELSE IF ~nd.inputs[2].connected THEN [raised |-> "AttributeError"]
       ELSE [raised |-> "no", geo |-> nd.inputs[2].geo]

bounding_box_second_input_always(nd, export_motion) ==
  IF second_input_geo(nd).raised = "no"
  THEN intrinsic_bounds(second_input_geo(nd).geo)
  ELSE intrinsic_bounds(nd.geo)

\* lines 121-125: the bounds that go to the companion file
bounding_box_of(nd, export_motion) ==
  IF export_motion /\ second_input_geo(nd).raised = "no"
  THEN intrinsic_bounds(second_input_geo(nd).geo)
  ELSE intrinsic_bounds(nd.geo)

\* 'bounds %s %s %s %s %s %s'
bounding_box_info(bounding_box) ==
  <<"bounds", bounding_box[1], bounding_box[3], bounding_box[5],
    bounding_box[2], bounding_box[4], bounding_box[6]>>

\* open(path, 'w').write(data) on the files
written(fs, path, content) ==
  [q \in DOMAIN fs \cup {path} |-> IF q = path THEN content ELSE fs[q]]

geometry2ass ==
  /\ pc \in {"ready", "geometry2ass"}
  /\ calls < MaxCalls
  /\ calls' = calls + 1
  /\ pc' = "geometry2ass"
  /\ LET ass_path == normpath(kwargs.path)
         data == CASE kwargs.export_type = 0 -> curves2ass(node.geo, kwargs.export_motion)
                   [] kwargs.export_type = 1 -> polygon2ass(node.geo, kwargs.export_motion)
                   [] OTHER -> [status |-> "ok", type |-> "empty"]
         bounding_box == bounding_box_of(node, kwargs.export_motion)
         with_body == written(files, ass_path,
                              [gzip |-> use_gzip_of(kwargs.path), data |-> data])
     IN /\ dirs' = IF dirname(ass_path) = << >> THEN dirs ELSE dirs \cup {dirname(ass_path)}
        /\ IF data.status # "ok"
           THEN /\ ret' = [status |-> data.status]
                /\ files' = files
           ELSE IF second_input_geo(node).raised = "AttributeError"
                THEN /\ ret' = [status |-> "AttributeError"]
                     /\ files' = with_body
                ELSE /\ ret' = [status |-> "ok"]
                     /\ files' = written(with_body, asstoc_path_of(kwargs.path),
                                         [gzip |-> FALSE,
                                          data |-> bounding_box_info(bounding_box)])
  /\ UNCHANGED <<node, kwargs, not_hou_vars>>

\* a bounding box whose six values differ from each other and from those of
\* the box of another k
Box(k) == [xmin |-> 10 * k + 1, xmax |-> 10 * k + 4, ymin |-> 10 * k + 2,
           ymax |-> 10 * k + 5, zmin |-> 10 * k + 3, zmax |-> 10 * k + 6]

PathChars == {".", "/", "g", "z"}

\* the paths that name a file: the last component is a name
FilePaths(n) ==
  {p \in SeqsUpTo(PathChars, n) :
     /\ p # << >>
     /\ p[Len(p)] # "/"
     /\ SubSeq(p, rfind(p, "/") + 1, Len(p)) \notin {<<".">>, <<".", ".">>}}

\* node.inputs(): input i, when connected, carries the geometry of box i
InputTuples(n) ==
  {t \in SeqsUpTo({TRUE, FALSE}, n) : t = << >> \/ t[Len(t)]}

InputsOf(t) ==
  [i \in 1..Len(t) |-> [connected |-> t[i], geo |-> [bounds |-> Box(i)]]]

InitGeometry2ass(paths, prims, input_tuples, types, motions) ==
  /\ node \in {[geo |-> [prims |-> ps, has_width |-> TRUE, bounds |-> Box(0)],
                inputs |-> InputsOf(t)] : ps \in prims, t \in input_tuples}
  /\ kwargs \in [path : paths, export_type : types, export_motion : motions]
  /\ ret = None
  /\ pc = "ready"
  /\ files = << >>
  /\ dirs = {}
  /\ calls = 0
  /\ buf = << >>
  /\ scene = None
  /\ NoSession /\ NoEdit

\* every file path up to a length, one geometry
InitPaths == InitGeometry2ass(FilePaths(MaxPathLen), {<<2>>}, {<< >>}, {0, 1}, {FALSE})

SpecPaths == InitPaths /\ [][geometry2ass]_vars

\* every wiring of the inputs, small geometries, all export types
InitBounds ==
  InitGeometry2ass({<<"g">>, <<"g", ".", "g", "z">>}, SeqsUpTo(1..2, MaxBoundsCurves),
                   InputTuples(MaxInputs), {0, 1, 2}, BOOLEAN)

SpecBounds == InitBounds /\ [][geometry2ass]_vars

(***************************************************************************)
(* Calls of the base85 codec on a buffer.                                  *)
(***************************************************************************)
Encode ==
  /\ pc = "ready"
  /\ ret' = b85_encode_call(buf)
  /\ pc' = "encoded"
  /\ UNCHANGED <<buf, not_codec_vars>>

Decode ==
  /\ pc = "encoded"
  /\ ret.status = "ok"
  /\ ret' = [status |-> "ok", encoded |-> ret.encoded,
             decoded |-> arnold_b85_decode(ret.encoded)]
  /\ pc' = "decoded"
  /\ UNCHANGED <<buf, not_codec_vars>>

\* bytes at both ends of the range and around the highest digit
ByteChoices == {0, 84, 255}

InitCodec ==
  /\ buf \in SeqsUpTo(ByteChoices, MaxBufLen)
  /\ ret = None
  /\ pc = "ready"
  /\ node = None
  /\ kwargs = None
  /\ files = << >>
  /\ dirs = {}
  /\ calls = 0
  /\ scene = None
  /\ NoSession /\ NoEdit

SpecCodec == InitCodec /\ [][Encode \/ Decode]_vars

(***************************************************************************)
(* The reference resolution of a scene.  scene.top is the set of versions  *)
(* the scene references, scene.inputs[v] the versions that version v       *)
(* references, scene.newer[v] whether a newer published version of v       *)
(* exists.  A version references only versions of a higher number, so      *)
(* references form no cycle.                                               *)
(***************************************************************************)
Versions == 1..MaxVersions

RECURSIVE sorted(_)
\* the members of a set of numbers in ascending order
sorted(S) ==
  IF S = {} THEN << >>
  ELSE LET m == CHOOSE x \in S : \A y \in S : x <= y
       IN <<m>> \o sorted(S \ {m})

RECURSIVE walk_shallowest_first(_, _)
\* the walk in the order of the references: a version before what it references
walk_shallowest_first(sc, vs) ==
  IF vs = << >> THEN << >>
  ELSE <<Head(vs)>> \o walk_shallowest_first(sc, sorted(sc.inputs[Head(vs)]))
         \o walk_shallowest_first(sc, Tail(vs))

RECURSIVE walk_deepest_first(_, _)
\* the references below the versions vs, each after the versions it references
walk_deepest_first(sc, vs) ==
  IF vs = << >> THEN << >>
  ELSE walk_deepest_first(sc, sorted(sc.inputs[Head(vs)])) \o <<Head(vs)>>
         \o walk_deepest_first(sc, Tail(vs))

InList(list, v) == \E i \in 1..Len(list) : list[i] = v

empty_reference_resolution == [leave |-> << >>, update |-> << >>, create |-> << >>]

\* a version is listed under 'update' because of its newer version and again
\* under 'create' because of its references
resolve_one_in_two_lists(sc, res, v) ==
  LET stale == \E w \in sc.inputs[v] : InList(res.update, w) \/ InList(res.create, w)
      listed == InList(res.leave, v) \/ InList(res.update, v) \/ InList(res.create, v)
  IN IF listed THEN res
     ELSE [leave |-> IF ~stale /\ ~sc.newer[v] THEN Append(res.leave, v) ELSE res.leave,
           update |-> IF sc.newer[v] THEN Append(res.update, v) ELSE res.update,
           create |-> IF stale THEN Append(res.create, v) ELSE res.create]

\* a version with a newer version is listed under 'create' instead of 'update'
resolve_one_update_as_create(sc, res, v) ==
  LET listed == InList(res.leave, v) \/ InList(res.update, v) \/ InList(res.create, v)
      stale == \E w \in sc.inputs[v] : InList(res.update, w) \/ InList(res.create, w)
      action == IF stale \/ sc.newer[v] THEN "create" ELSE "leave"
  IN IF listed THEN res ELSE [res EXCEPT ![action] = Append(@, v)]

\* the list of one version: 'create' when a version it references is to be
\* updated or created, else 'update' when a newer version of it exists, else
\* 'leave'; a version met again is not listed again
resolve_one(sc, res, v) ==
  LET stale == \E w \in sc.inputs[v] : InList(res.update, w) \/ InList(res.create, w)
      listed == InList(res.leave, v) \/ InList(res.update, v) \/ InList(res.create, v)
      action == IF stale THEN "create" ELSE IF sc.newer[v] THEN "update" ELSE "leave"
  IN IF listed THEN res ELSE [res EXCEPT ![action] = Append(@, v)]

RECURSIVE resolve(_, _, _)
resolve(sc, order, res) ==
  IF order = << >> THEN res
  ELSE resolve(sc, Tail(order), resolve_one(sc, res, Head(order)))

\* DCCBase.check_referenced_versions, called by Maya.check_referenced_versions
check_referenced_versions(sc) ==
  resolve(sc, walk_deepest_first(sc, sorted(sc.top)), empty_reference_resolution)

Maya_check_referenced_versions ==
  /\ pc = "ready"
  /\ ret' = check_referenced_versions(scene)
  /\ pc' = "check_referenced_versions"
  /\ UNCHANGED <<scene, not_maya_vars>>

\* Maya.open, lines 710-714: what it returns once the scene is open
Maya_open ==
  /\ pc = "ready"
  /\ \E skip_update_check \in BOOLEAN :
       /\ ret' = IF ~skip_update_check THEN check_referenced_versions(scene)
                 ELSE empty_reference_resolution
       /\ pc' = IF skip_update_check THEN "open_skipped" ELSE "open"
  /\ UNCHANGED <<scene, not_maya_vars>>

InitMaya ==
  /\ scene \in [top : SUBSET Versions,
                inputs : {f \in [Versions -> SUBSET Versions] :
                            \A v \in Versions : \A w \in f[v] : w > v},
                newer : [Versions -> BOOLEAN]]
  /\ ret = None
  /\ pc = "ready"
  /\ node = None
  /\ kwargs = None
  /\ files = << >>
  /\ dirs = {}
  /\ calls = 0
  /\ buf = << >>
  /\ NoSession /\ NoEdit

SpecMaya == InitMaya /\ [][Maya_check_referenced_versions \/ Maya_open]_vars

(***************************************************************************)
(* The references of a Maya scene as a tree.  scene.references are the     *)
(* first-level references in the order Maya lists them, each with the      *)
(* version of its file and its namespace; scene.children[v] are the        *)
(* references inside the file of version v; scene.latest[v] is the latest  *)
(* published version of v.  A reference is named by its place in the tree: *)
(* <<i>> is the i-th first-level reference, <<i, j>> its j-th child.       *)
(* Strings (namespaces, reference edits) are sequences of characters.      *)
(***************************************************************************)
WordChars == {"a", "b", "m", "n", "v", "_", "1"}
Digits == {"1"}

\* re.match(regex, namespace) of lines 1782 and 1790: word characters, then
\* "_v", digits, "_ma"; what follows is not looked at
old_namespace_match(namespace) ==
  \E i \in 2..Len(namespace) : \E k \in (i + 2)..Len(namespace) :
    /\ \A p \in 1..(i - 1) : namespace[p] \in WordChars
    /\ namespace[i] = "_" /\ namespace[i + 1] = "v"
    /\ \A p \in (i + 2)..k : namespace[p] \in Digits
    /\ k + 3 <= Len(namespace)
    /\ SubSeq(namespace, k + 1, k + 3) = <<"_", "m", "a">>

StartsWithAt(s, t, i) ==
  i + Len(t) - 1 <= Len(s) /\ SubSeq(s, i, i + Len(t) - 1) = t

RECURSIVE replace_from(_, _, _, _)
replace_from(s, old, new, i) ==
  IF i > Len(s) THEN (IF old = << >> THEN new ELSE << >>)
  ELSE IF old = << >> THEN new \o <<s[i]>> \o replace_from(s, old, new, i + 1)
  ELSE IF StartsWithAt(s, old, i) THEN new \o replace_from(s, old, new, i + Len(old))
  ELSE <<s[i]>> \o replace_from(s, old, new, i + 1)

\* str.replace: every occurrence of old, from the left, none overlapping
replace(s, old, new) == Str(replace_from(s, old, new, 1))

\* the edit is evaluated as recorded, the namespace is not substituted
updated_edit_of_verbatim(edit, old_namespace, new_namespace) ==
  replace(edit, <<"|", ":">>, <<"|">>)

\* line 1864
updated_edit_of(edit, old_namespace, new_namespace) ==
  replace(replace(edit, old_namespace, new_namespace), <<"|", ":">>, <<"|">>)

\* Version.nice_name: versions 1 and 2 are versions of one task, the others
\* of another
nice_name(v) == IF v <= 2 THEN <<"a">> ELSE <<"b">>
\* the namespace template of the past: nice name, version number, extension
old_style_namespace(v) == nice_name(v) \o <<"_", "v", "1", "_", "m", "a">>

reversed(s) == [i \in 1..Len(s) |-> s[Len(s) + 1 - i]]

\* pm.listReferences(): the first-level references
listReferences(sc) == [i \in 1..Len(sc.references) |-> <<i>>]

\* pm.listReferences(recursive=True): each reference followed by the
\* references inside it
listReferences_recursive(sc) ==
  JoinSeqs([i \in 1..Len(sc.references) |->
    <<<<i>>>> \o [j \in 1..Len(sc.children[sc.references[i].version]) |-> <<i, j>>]])

RefAt(sc, id) ==
  IF Len(id) = 1 THEN sc.references[id[1]]
  ELSE sc.children[sc.references[id[1]].version][id[2]]

\* ref.fullNamespace
fullNamespace(sc, id) ==
  IF Len(id) = 1 THEN sc.references[id[1]].namespace
  ELSE sc.references[id[1]].namespace \o <<":">> \o RefAt(sc, id).namespace

\* Maya.update_first_level_versions: a first-level reference whose version is
\* in 'update' is replaced with the latest published version
update_first_level_versions(sc, reference_resolution) ==
  LET hit(i) == InList(reference_resolution.update, sc.references[i].version)
  IN [scene |-> [sc EXCEPT !.references =
                   [i \in 1..Len(sc.references) |->
                      IF hit(i)
                      THEN [sc.references[i] EXCEPT !.version = sc.latest[@]]
                      ELSE sc.references[i]]],
      updated_references |-> \E i \in 1..Len(sc.references) : hit(i)]

\* the scene as Maya.check_referenced_versions sees it
resolution_scene(sc) ==
  [top |-> {sc.references[i].version : i \in 1..Len(sc.references)} \cap Versions,
   inputs |-> [v \in Versions |-> {sc.children[v][j].version : j \in 1..Len(sc.children[v])}],
   newer |-> [v \in Versions |-> sc.latest[v] # v]]

\* every place of the reference tree
Ids == {<<1>>, <<2>>, <<1, 1>>, <<2, 1>>}

\* lines 1863-1878: the edits recorded at place i of the first listing, as
\* they are evaluated for the reference at place i of the second listing
replayed_edits(sc, edits_dictionary, ref, i) ==
  IF i > Len(edits_dictionary) THEN << >>
  ELSE LET old_namespace == edits_dictionary[i].namespace
           new_namespace == fullNamespace(sc, ref)
           all_edits == edits_dictionary[i].edits
           updated == [k \in 1..Len(all_edits) |->
                         [ref |-> ref, place |-> i,
                          edit |-> updated_edit_of(all_edits[k], old_namespace, new_namespace)]]
       IN SelectSeq(updated, LAMBDA e : e.edit \notin sc.external)

\* Maya.update_reference_edits, lines 1769-1880
Maya_update_reference_edits ==
  /\ pc = "ready"
  /\ LET reference_resolution == check_referenced_versions(resolution_scene(scene))
         refs == listReferences_recursive(scene)
         updated_namespaces ==
           \E i \in 1..Len(refs) : old_namespace_match(RefAt(scene, refs[i]).namespace)
     IN IF ~updated_namespaces
        THEN LET u == update_first_level_versions(scene, reference_resolution)
             IN /\ scene' = u.scene
                /\ ret' = [status |-> "ok", updated_namespaces |-> u.updated_references]
        ELSE LET first == reversed(refs)
                 edits_dictionary ==
                   [i \in 1..Len(first) |->
                      [namespace |-> fullNamespace(scene, first[i]),
                       edits |-> scene.edits[first[i]]]]
                 removed ==
                   [scene EXCEPT !.edits =
                      [id \in Ids |-> IF InList(refs, id) THEN << >> ELSE scene.edits[id]]]
                 u == update_first_level_versions(removed, reference_resolution)
                 renamed ==
                   [u.scene EXCEPT !.references =
                      [i \in 1..Len(u.scene.references) |->
                         [u.scene.references[i] EXCEPT
                            !.namespace = nice_name(u.scene.references[i].version)]]]
                 second == reversed(listReferences_recursive(renamed))
                 evaluated ==
                   JoinSeqs([i \in 1..Len(second) |->
                               replayed_edits(renamed, edits_dictionary, second[i], i)])
             IN /\ scene' = [renamed EXCEPT !.evaluated = evaluated,
                                            !.edits_dictionary = edits_dictionary]
                /\ ret' = [status |-> "ok", updated_namespaces |-> TRUE]
  /\ pc' = "update_reference_edits"
  /\ UNCHANGED not_maya_vars

\* the edits made on a reference of the given namespace: one on a node of the
\* namespace, one that names no namespace, one with a root namespace
EditsOn(namespace) ==
  << <<"s", " ", "|">> \o namespace \o <<":", "n">>,
     <<"p", " ", "x">>,
     <<"c", " ", "|", ":", "x">> >>

\* a reference to version v, with the namespace of today or of the past
ReferencesTo(vs) ==
  UNION {{[version |-> v, namespace |-> ns] : ns \in {nice_name(v), old_style_namespace(v)}} :
           v \in vs}

\* the references inside a file: none, or one to a version of the other task
ChildReferences(v) ==
  IF nice_name(v) = <<"a">>
  THEN {<< >>} \cup {<<r>> : r \in ReferencesTo({w \in Versions : nice_name(w) = <<"b">>})}
  ELSE {<< >>}

\* the first-level references: one or two references to different tasks
FirstLevelReferences(vs) ==
  {<<r>> : r \in ReferencesTo(vs)}
    \cup {p \in {<<r, q>> : r \in ReferencesTo(vs), q \in ReferencesTo(vs)} :
            nice_name(p[1].version) # nice_name(p[2].version)}

\* the latest published version of a version: a version of the same task
LatestVersions ==
  {f \in [Versions -> Versions] :
     \A v \in Versions : f[v] >= v /\ nice_name(f[v]) = nice_name(v) /\ f[f[v]] = f[v]}

InitEdits ==
  /\ \E references \in FirstLevelReferences(Versions) :
     \E children \in {f \in [Versions -> UNION {ChildReferences(v) : v \in Versions}] :
                        \A v \in Versions : f[v] \in ChildReferences(v)} :
     \E latest \in LatestVersions :
     \E external \in SUBSET {EditsOn(<< >>)[2]} :
       LET sc == [references |-> references, children |-> children, latest |-> latest]
       IN \E edited \in {S \in SUBSET {id \in Ids : InList(listReferences_recursive(sc), id)} :
                           Cardinality(S) <= MaxEdited} :
            scene = [references |-> references, children |-> children, latest |-> latest,
                     external |-> external,
                     edits |-> [id \in Ids |-> IF id \in edited
                                               THEN EditsOn(fullNamespace(sc, id))
                                               ELSE << >>],
                     edits_dictionary |-> << >>,
                     evaluated |-> << >>]
  /\ ret = [status |-> None, updated_namespaces |-> FALSE]
  /\ pc = "ready"
  /\ node = None
  /\ kwargs = None
  /\ files = << >>
  /\ dirs = {}
  /\ calls = 0
  /\ buf = << >>
  /\ NoSession /\ NoEdit

SpecEdits == InitEdits /\ [][Maya_update_reference_edits]_vars

(***************************************************************************)
(* Maya.update_versions on the reference tree.  A first-level reference    *)
(* whose file is no version of the database has the version no_version.    *)
(* scene.replaced lists the calls of replaceWith: the reference and the    *)
(* version it was pointed to.                                              *)
(***************************************************************************)
no_version == 0

is_latest_published_version(sc, v) == sc.latest[v] = v

\* the references of 'create' are replaced as well
update_versions_also_create(sc, reference_resolution) ==
  LET hit(i) == LET v == sc.references[i].version
                IN /\ v # no_version
                   /\ InList(reference_resolution.update, v)
                        \/ InList(reference_resolution.create, v)
                   /\ ~is_latest_published_version(sc, v)
      hits == SelectSeq([i \in 1..Len(sc.references) |-> i], hit)
  IN [scene |-> [sc EXCEPT
                   !.references = [i \in 1..Len(sc.references) |->
                                     IF hit(i)
                                     THEN [sc.references[i] EXCEPT !.version = sc.latest[@]]
                                     ELSE sc.references[i]],
                   !.replaced = [k \in 1..Len(hits) |->
                                   [ref |-> <<hits[k]>>,
                                    version |-> sc.latest[sc.references[hits[k]].version]]]],
      ret |-> << >>]

\* Maya.update_versions, lines 1679-1767: the scene it leaves and the list it
\* returns; the order in which the references are visited changes neither
update_versions(sc, reference_resolution) ==
  LET hit(i) == LET v == sc.references[i].version
                IN /\ v # no_version
                   /\ InList(reference_resolution.update, v)
                   /\ ~is_latest_published_version(sc, v)
      hits == SelectSeq([i \in 1..Len(sc.references) |-> i], hit)
  IN [scene |-> [sc EXCEPT
                   !.references = [i \in 1..Len(sc.references) |->
                                     IF hit(i)
                                     THEN [sc.references[i] EXCEPT !.version = sc.latest[@]]
                                     ELSE sc.references[i]],
                   !.replaced = [k \in 1..Len(hits) |->
                                   [ref |-> <<hits[k]>>,
                                    version |-> sc.latest[sc.references[hits[k]].version]]]],
      ret |-> << >>]

Maya_update_versions ==
  /\ pc = "ready"
  /\ LET done == update_versions(scene, kwargs.reference_resolution)
     IN /\ scene' = done.scene
        /\ ret' = [status |-> "ok", value |-> done.ret]
  /\ pc' = "update_versions"
  /\ UNCHANGED <<kwargs, node, files, dirs, calls, buf, session_vars, edit_vars>>

\* a reference resolution: any versions under 'update', under 'create' none,
\* all the others or all versions, and under 'leave' what is in neither
ReferenceResolutions ==
  {[update |-> sorted(u), create |-> sorted(c), leave |-> sorted(Versions \ (u \cup c))] :
     u \in SUBSET Versions, c \in {{}, Versions}}
    \cup {[update |-> sorted(u), create |-> sorted(Versions \ u), leave |-> << >>] :
            u \in SUBSET Versions}

InitUpdate ==
  /\ scene \in [references : SeqsUpTo({[version |-> v, namespace |-> <<"n">>] :
                                         v \in Versions \cup {no_version}}, MaxRefs),
                children : {f \in [Versions -> UNION {ChildReferences(v) : v \in Versions}] :
                              \A v \in Versions :
                                /\ f[v] \in ChildReferences(v)
                                /\ \A j \in 1..Len(f[v]) :
                                     f[v][j].namespace = nice_name(f[v][j].version)},
                latest : LatestVersions,
                replaced : {<< >>}]
  /\ kwargs \in [reference_resolution : ReferenceResolutions]
  /\ ret = [status |-> None]
  /\ pc = "ready"
  /\ node = None
  /\ files = << >>
  /\ dirs = {}
  /\ calls = 0
  /\ buf = << >>
  /\ NoSession /\ NoEdit

SpecUpdate == InitUpdate /\ [][Maya_update_versions]_vars

(***************************************************************************)
(* Maya.save_as.  A path is the sequence of its components, "/" first when *)
(* it is absolute.  scene.nodes are the nodes that name an external file,  *)
(* scene.workspace is pm.workspace.path, scene.saved the files written by  *)
(* pm.saveAs and scene.selection what pm.select selected.  The steps of    *)
(* save_as that set render and playback options are left out: they touch   *)
(* none of this state.                                                     *)
(***************************************************************************)
maya_workspace_file_content == "// Auto Generated by Anima"

\* the node types of check_external_files in the order they are checked,
\* each with the folder its files are copied to
NodeTypes == <<"audio", "file", "aiImage", "mentalrayTexture", "imagePlane", "mentalrayIblShape">>
type_name_of(node_type) ==
  CASE node_type = "audio" -> "Sound"
    [] node_type \in {"file", "aiImage", "mentalrayTexture"} -> "Textures"
    [] node_type = "imagePlane" -> "ImagePlanes"
    [] OTHER -> "IBL"

isabs(path) == path # << >> /\ path[1] = "/"
\* Maya.is_in_repo: a repository holds the path
is_in_repo(path) == Len(path) >= 2 /\ path[1] = "/" /\ path[2] = "repo"
basename(path) == path[Len(path)]

\* Maya.move_to_local, lines 1085-1106: the copy made, if one was made
move_to_local(fs, version, file_path, type_name, copy_raises) ==
  LET local_path == version.absolute_path \o <<"external_files", type_name>>
      destination_full_path == local_path \o <<basename(file_path)>>
  IN IF destination_full_path \notin DOMAIN fs /\ ~copy_raises
     THEN [copied |-> TRUE, new_path |-> destination_full_path,
           files |-> written(fs, destination_full_path, "copy"),
           made |-> {local_path}]
     ELSE [copied |-> FALSE, new_path |-> << >>, files |-> fs, made |-> {local_path}]

\* the nodes in the order check_external_files visits them
nodes_by_type(nodes) ==
  JoinSeqs([t \in 1..Len(NodeTypes) |->
              SelectSeq([i \in 1..Len(nodes) |-> i], LAMBDA i : nodes[i].type = NodeTypes[t])])

\* a node whose file was not copied is not reported
check_one_ignores_failed_copy(st, version, i, copy_raises) ==
  LET path == st.nodes[i].path
      moved == move_to_local(st.files, version, path,
                             type_name_of(st.nodes[i].type), copy_raises)
  IN IF isabs(path) /\ ~is_in_repo(path) /\ moved.copied
     THEN [st EXCEPT !.nodes[i].path = moved.new_path,
                     !.files = moved.files,
                     !.dirs = @ \cup moved.made]
     ELSE st

\* one node of check_external_files, for instance lines 1140-1154
check_one(st, version, i, copy_raises) ==
  LET path == st.nodes[i].path
  IN IF isabs(path) /\ ~is_in_repo(path)
     THEN LET moved == move_to_local(st.files, version, path,
                                     type_name_of(st.nodes[i].type), copy_raises)
          IN IF ~moved.copied
             THEN [st EXCEPT !.external_nodes = Append(@, i),
                             !.dirs = @ \cup moved.made]
             ELSE [st EXCEPT !.nodes[i].path = moved.new_path,
                             !.files = moved.files,
                             !.dirs = @ \cup moved.made]
     ELSE st

RECURSIVE check_all(_, _, _, _)
check_all(st, version, order, copy_raises) ==
  IF order = << >> THEN st
  ELSE check_all(check_one(st, version, Head(order), copy_raises),
                 version, Tail(order), copy_raises)

\* Maya.check_external_files, lines 1108-1248: the nodes and files it leaves
\* and the nodes it raises RuntimeError for
check_external_files(nodes, fs, ds, version, copy_raises) ==
  check_all([nodes |-> nodes, files |-> fs, dirs |-> ds, external_nodes |-> << >>],
            version, nodes_by_type(nodes), copy_raises)

\* Maya.create_workspace_file, lines 1580-1599: the files after the call
create_workspace_file(fs, path) ==
  written(fs, path \o <<"workspace.mel">>, maya_workspace_file_content)

\* Maya.replace_external_paths, lines 1519-1572: a relative path is joined to
\* the workspace path
replace_external_paths(nodes, workspace_path) ==
  [i \in 1..Len(nodes) |->
     IF nodes[i].path # << >> /\ ~isabs(nodes[i].path)
     THEN [nodes[i] EXCEPT !.path = workspace_path \o @]
     ELSE nodes[i]]

\* the error of a pre-publisher is not raised
pre_publish_swallows_error(stg, version, run_pre_publishers, publishers) ==
  IF version.is_published /\ run_pre_publishers
  THEN [raised |-> "no",
        staging |-> IF publishers # "ok" THEN {} ELSE {<<"version", version.id>>}]
  ELSE [raised |-> "no", staging |-> stg]

\* lines 322-345: the pre-publishers of a published version; the error they
\* raise, if any, and the staging area they leave
pre_publish(stg, version, run_pre_publishers, publishers) ==
  IF version.is_published /\ run_pre_publishers
  THEN IF publishers # "ok"
       THEN [raised |-> publishers, staging |-> {}]
       ELSE [raised |-> "no", staging |-> {<<"version", version.id>>}]
  ELSE [raised |-> "no", staging |-> stg]

\* the versions save_as is called with: a version of one task and a
\* published version of another
SaveVersions ==
  {[id |-> 1, is_published |-> FALSE, absolute_path |-> <<"/", "repo", "t1">>,
    absolute_full_path |-> <<"/", "repo", "t1", "v1.ma">>],
   [id |-> 2, is_published |-> TRUE, absolute_path |-> <<"/", "repo", "t2">>,
    absolute_full_path |-> <<"/", "repo", "t2", "v2.ma">>]}

\* what run_publishers does: it returns or raises one of the caught errors
PublisherOutcomes == {"ok", "PublishError", "RuntimeError"}

\* Maya.save_as, lines 313-524
Maya_save_as ==
  /\ pc \in {"ready", "save_as", "create_workspace_file"}
  /\ calls < MaxCalls
  /\ calls' = calls + 1
  /\ pc' = "save_as"
  /\ \E version \in SaveVersions : \E run_pre_publishers \in BOOLEAN :
     \E publishers \in (IF version.is_published /\ run_pre_publishers
                         THEN PublisherOutcomes ELSE {"ok"}) :
     \E post_publishers \in (IF version.is_published THEN PublisherOutcomes ELSE {"ok"}) :
     \E copy_raises \in (IF \E i \in 1..Len(scene.nodes) :
                               isabs(scene.nodes[i].path) /\ ~is_in_repo(scene.nodes[i].path)
                          THEN BOOLEAN ELSE {FALSE}) :
       LET pre == pre_publish(staging, version, run_pre_publishers, publishers)
           checked == check_external_files(scene.nodes, files, dirs, version, copy_raises)
           workspace_path == version.absolute_path
       IN /\ kwargs' = [version |-> version, run_pre_publishers |-> run_pre_publishers,
                        publishers |-> publishers]
          /\ IF pre.raised # "no"
             THEN /\ ret' = [status |-> pre.raised, step |-> "pre_publish"]
                  /\ staging' = pre.staging
                  /\ UNCHANGED <<scene, files, dirs, DBSession>>
             ELSE IF checked.external_nodes # << >>
             THEN /\ ret' = [status |-> "RuntimeError", step |-> "check_external_files"]
                  /\ staging' = pre.staging
                  /\ scene' = [scene EXCEPT !.nodes = checked.nodes,
                                            !.selection = checked.external_nodes]
                  /\ files' = checked.files
                  /\ dirs' = checked.dirs
                  /\ DBSession' = [DBSession EXCEPT !.updated_paths = @ \cup {version.id}]
             ELSE /\ scene' = [scene EXCEPT
                                !.nodes = replace_external_paths(checked.nodes, scene.workspace),
                                !.workspace = workspace_path,
                                !.saved = Append(@, version.absolute_full_path)]
                  /\ files' = written(create_workspace_file(checked.files, workspace_path),
                                      version.absolute_full_path, "mayaAscii")
                  /\ dirs' = checked.dirs \cup {workspace_path}
                  /\ DBSession' = [updated_paths |-> DBSession.updated_paths \cup {version.id},
                                   added |-> DBSession.added \cup {version.id},
                                   committed |-> DBSession.committed \cup {version.id}]
                  /\ IF version.is_published /\ post_publishers # "ok"
                     THEN /\ ret' = [status |-> post_publishers, step |-> "post_publish"]
                          /\ staging' = {}
                     ELSE /\ ret' = [status |-> "ok", step |-> "return"]
                          /\ staging' = IF version.is_published
                                        THEN {<<"version", version.id>>} ELSE pre.staging
  /\ UNCHANGED <<node, buf, edit_vars>>

\* Maya.create_workspace_file called on its own
Maya_create_workspace_file ==
  /\ pc \in {"ready", "save_as", "create_workspace_file"}
  /\ calls < MaxCalls
  /\ calls' = calls + 1
  /\ pc' = "create_workspace_file"
  /\ \E version \in SaveVersions :
       /\ kwargs' = [path |-> version.absolute_path]
       /\ files' = create_workspace_file(files, version.absolute_path)
       /\ dirs' = IF version.absolute_path \o <<"workspace.mel">> \in DOMAIN files
                  THEN dirs ELSE dirs \cup {version.absolute_path}
  /\ ret' = [status |-> "ok", step |-> "return"]
  /\ UNCHANGED <<node, buf, scene, session_vars, edit_vars>>

\* a node of the scene: its type and the file it names, by a relative path
\* or by an absolute path outside the repository
SceneNodes ==
  {[type |-> NodeTypes[t], path |-> p] :
     t \in 1..Len(NodeTypes),
     p \in {<<"tex", "x">>, <<"/", "home", "x">>}}

\* the files there are before the first call: none, the copies an earlier
\* save made in the first task, or its workspace.mel as changed since
FilesBefore ==
  LET copies == [p \in {<<"/", "repo", "t1", "external_files", n, "x">> :
                          n \in {"Sound", "Textures", "ImagePlanes", "IBL"}} |-> "copy"]
      mel == <<"/", "repo", "t1", "workspace.mel">>
  IN {<< >>, copies, written(<< >>, mel, "customized")}

InitSave ==
  /\ scene \in [nodes : SeqsUpTo(SceneNodes, MaxNodes),
                 workspace : {<<"/", "home">>},
                 saved : {<< >>},
                 selection : {<< >>}]
  /\ files \in FilesBefore
  /\ dirs = {}
  /\ DBSession = [updated_paths |-> {}, added |-> {}, committed |-> {}]
  /\ staging = {}
  /\ calls = 0
  /\ ret = [status |-> None, step |-> None]
  /\ pc = "ready"
  /\ kwargs = [path |-> << >>]
  /\ node = None
  /\ buf = << >>
  /\ NoEdit

SpecSave == InitSave /\ [][Maya_save_as \/ Maya_create_workspace_file]_vars

(***************************************************************************)
(* anima.edit: the name and the duration of Sequence, Clip and File.  A    *)
(* Python value is a record of its type and its value; a string is the     *)
(* number of a name, 0 being the empty string; a float is a whole number   *)
(* or nan, the float that compares false with every number.                *)
(***************************************************************************)
PyNone == [type |-> "NoneType", value |-> 0, nan |-> FALSE]
PyBool(b) == [type |-> "bool", value |-> IF b THEN 1 ELSE 0, nan |-> FALSE]
PyInt(n) == [type |-> "int", value |-> n, nan |-> FALSE]
PyFloat(n) == [type |-> "float", value |-> n, nan |-> FALSE]
PyNaN == [type |-> "float", value |-> 0, nan |-> TRUE]
PyStr(k) == [type |-> "str", value |-> k, nan |-> FALSE]

PyValues ==
  {PyNone, PyNaN} \cup {PyBool(b) : b \in BOOLEAN}
    \cup {PyInt(n) : n \in -1..MaxDuration} \cup {PyFloat(n) : n \in -1..MaxDuration}
    \cup {PyStr(k) : k \in 0..MaxNames}

\* isinstance(v, str) and isinstance(v, (int, float)); bool is a subclass of int
isinstance_str(v) == v.type = "str"
isinstance_int_float(v) == v.type \in {"int", "bool", "float"}

\* float(v) of an int, a bool or a float
float(v) == [type |-> "float", value |-> v.value, nan |-> v.nan]

\* v < 0
less_than_zero(v) == ~v.nan /\ v.value < 0

_validate_name(name) ==
  IF ~isinstance_str(name)
  THEN [raised |-> "TypeError", value |-> name]
  ELSE [raised |-> None, value |-> name]

_validate_duration(duration) ==
  LET d == IF duration = PyNone THEN PyFloat(0) ELSE duration
  IN IF ~isinstance_int_float(d)
     THEN [raised |-> "TypeError", value |-> d]
     ELSE IF less_than_zero(float(d))
          THEN [raised |-> "ValueError", value |-> float(d)]
          ELSE [raised |-> None, value |-> float(d)]

EditClasses == {"Sequence", "Clip", "File"}

\* the default of the duration argument: 0.0 of Sequence and Clip, 0 of File
default_duration(cls) == IF cls = "File" THEN PyInt(0) ELSE PyFloat(0)

\* the name and duration arguments of a construction: any name with the
\* default duration, and any duration with the default name or with None
ConstructorArguments(cls) ==
  {[name |-> n, duration |-> default_duration(cls)] : n \in PyValues}
    \cup {[name |-> n, duration |-> d] : n \in {PyStr(0), PyNone}, d \in PyValues}

\* Sequence(...), Clip(...) or File(...): NameMixin.__init__, then
\* DurationMixin.__init__; when one raises no object is made and the one at
\* hand stays
Edit_init ==
  \E cls \in EditClasses :
  \E args \in ConstructorArguments(cls) :
    LET n == _validate_name(args.name)
        d == _validate_duration(args.duration)
    IN /\ kwargs' = [class |-> cls, name |-> args.name, duration |-> args.duration]
       /\ pc' = "__init__"
       /\ IF n.raised # None
          THEN ret' = [status |-> n.raised] /\ clip' = clip
          ELSE IF d.raised # None
               THEN ret' = [status |-> d.raised] /\ clip' = clip
               ELSE /\ ret' = [status |-> "ok"]
                    /\ clip' = [class |-> cls, _name |-> n.value, _duration |-> d.value]
       /\ UNCHANGED <<node, files, dirs, calls, buf, scene, session_vars, timeline, tasks>>

\* obj.name = name
NameMixin_name ==
  /\ clip.class # None
  /\ \E name \in PyValues :
       LET n == _validate_name(name)
       IN /\ kwargs' = [name |-> name]
          /\ pc' = "name"
          /\ IF n.raised # None
             THEN ret' = [status |-> n.raised] /\ clip' = clip
             ELSE ret' = [status |-> "ok"] /\ clip' = [clip EXCEPT !._name = n.value]
  /\ UNCHANGED <<node, files, dirs, calls, buf, scene, session_vars, timeline, tasks>>

\* obj.duration = duration
DurationMixin_duration ==
  /\ clip.class # None
  /\ \E duration \in PyValues :
       LET d == _validate_duration(duration)
       IN /\ kwargs' = [duration |-> duration]
          /\ pc' = "duration"
          /\ IF d.raised # None
             THEN ret' = [status |-> d.raised] /\ clip' = clip
             ELSE ret' = [status |-> "ok"] /\ clip' = [clip EXCEPT !._duration = d.value]
  /\ UNCHANGED <<node, files, dirs, calls, buf, scene, session_vars, timeline, tasks>>

InitEditObjects ==
  /\ clip = [class |-> None, _name |-> PyNone, _duration |-> PyNone]
  /\ kwargs = [name |-> PyNone]
  /\ ret = [status |-> None]
  /\ pc = "ready"
  /\ timeline = None
  /\ tasks = None
  /\ node = None
  /\ files = << >>
  /\ dirs = {}
  /\ calls = 0
  /\ buf = << >>
  /\ scene = None
  /\ NoSession

SpecEditObjects ==
  InitEditObjects /\ [][Edit_init \/ NameMixin_name \/ DurationMixin_duration]_vars

(***************************************************************************)
(* ShotManager and ShotClip of anima.env.resolve.shot_tools.  The timeline *)
(* is the list of its clips; a clip has a marker with a note, or none.  A  *)
(* string is the sequence of its characters.                               *)
(***************************************************************************)
CodeDigits == {"0", "1"}
CodeUppercase == {"A", "B", "F", "P"}
CodeWordChars == CodeDigits \cup CodeUppercase \cup {"a", "_"}

\* ord(c) of the characters of the notes
ord(c) ==
  CASE c = " " -> 32 [] c = "-" -> 45 [] c = "0" -> 48 [] c = "1" -> 49
    [] c = "A" -> 65 [] c = "B" -> 66 [] c = "F" -> 70 [] c = "P" -> 80
    [] c = "_" -> 95 [] c = "a" -> 97

RECURSIVE str_le(_, _)
\* a <= b of two strings
str_le(a, b) ==
  IF a = << >> THEN TRUE
  ELSE IF b = << >> THEN FALSE
  ELSE IF ord(Head(a)) # ord(Head(b)) THEN ord(Head(a)) < ord(Head(b))
  ELSE str_le(Tail(a), Tail(b))

RECURSIVE insert_sorted(_, _)
insert_sorted(list, s) ==
  IF list = << >> THEN <<s>>
  ELSE IF str_le(s, Head(list)) THEN <<s>> \o list
  ELSE <<Head(list)>> \o insert_sorted(Tail(list), s)

RECURSIVE sorted_strings(_)
\* sorted(list) of a list of strings
sorted_strings(list) ==
  IF list = << >> THEN << >>
  ELSE insert_sorted(sorted_strings(Tail(list)), Head(list))

RECURSIVE strip(_)
\* s.strip(): without the blanks at both ends
strip(s) ==
  IF s = << >> THEN s
  ELSE IF Head(s) = " " THEN strip(Tail(s))
  ELSE IF s[Len(s)] = " " THEN strip(SubSeq(s, 1, Len(s) - 1))
  ELSE s

\* the characters of s from i on start with three digits, an optional
\* uppercase letter, "_" and four digits; the position after them
shot_number_ends(s, i) ==
  {e \in {i + 8, i + 9} :
     /\ e - 1 <= Len(s)
     /\ \A p \in i..(i + 2) : s[p] \in CodeDigits
     /\ e = i + 9 => s[i + 3] \in CodeUppercase
     /\ s[e - 5] = "_"
     /\ \A p \in (e - 4)..(e - 1) : s[p] \in CodeDigits}

\* the positions after a match of ([\w]+)_(\d{3})_(\d{3}[A-Z]{0,1})_(\d{4})
\* at the start of s
regex_match_ends(s) ==
  UNION {IF /\ \A p \in 1..k : s[p] \in CodeWordChars
            /\ k + 5 <= Len(s)
            /\ s[k + 1] = "_"
            /\ \A p \in (k + 2)..(k + 4) : s[p] \in CodeDigits
            /\ s[k + 5] = "_"
         THEN shot_number_ends(s, k + 6)
         ELSE {} : k \in 1..Len(s)}

\* regex.match(shot_code), line 775: a match at the start of the string
regex_match(s) == regex_match_ends(s) # {}

\* ShotClip.get_shot_related_marker and ShotClip.shot_code: the stripped note
\* of the marker of the clip, None without a marker
shot_code(c) == IF c.marker THEN strip(c.note) ELSE << >>
has_shot_code(c) == c.marker

\* ShotClip.is_shot: the shot code is neither None nor empty
is_shot(c) == has_shot_code(c) /\ shot_code(c) # << >>

\* ShotManager.get_shots: the clips that are shots, as their places in the
\* timeline
get_shots(tl) == SelectSeq([i \in 1..Len(tl) |-> i], LAMBDA i : is_shot(tl[i]))

\* ShotClip.validate_shot_code: what it raises
validate_shot_code(c) ==
  IF ~has_shot_code(c) THEN "TypeError"
  ELSE IF ~regex_match(shot_code(c)) THEN "ValueError"
  ELSE "ok"

\* ShotManager.validate_shot_codes
validate_shot_codes(tl) ==
  SelectSeq(get_shots(tl), LAMBDA i : validate_shot_code(tl[i]) = "ValueError")

RECURSIVE duplicates_after(_, _)
\* the loop of lines 252-256 over the codes left, after prev_shot_code
duplicates_after(codes, prev_shot_code) ==
  IF codes = << >> THEN << >>
  ELSE (IF Head(codes) = prev_shot_code THEN <<Head(codes)>> ELSE << >>)
         \o duplicates_after(Tail(codes), Head(codes))

Unique(list) == {list[i] : i \in 1..Len(list)}

\* the codes are compared in the order of the timeline
check_duplicate_shots_unsorted(tl) ==
  LET shots == get_shots(tl)
      shot_codes == [k \in 1..Len(shots) |-> shot_code(tl[shots[k]])]
  IN IF Cardinality(Unique(shot_codes)) # Len(shot_codes)
     THEN duplicates_after(shot_codes, << >>)
     ELSE << >>

\* ShotManager.check_duplicate_shots
check_duplicate_shots(tl) ==
  LET shots == get_shots(tl)
      shot_codes == sorted_strings([k \in 1..Len(shots) |-> shot_code(tl[shots[k]])])
  IN IF Cardinality(Unique(shot_codes)) # Len(shot_codes)
     THEN duplicates_after(shot_codes, << >>)
     ELSE << >>

ShotManager_check_duplicate_shots ==
  /\ calls < MaxCalls
  /\ calls' = calls + 1
  /\ pc' = "check_duplicate_shots"
  /\ kwargs' = [clip |-> 0]
  /\ ret' = [status |-> "ok", value |-> check_duplicate_shots(timeline)]
  /\ UNCHANGED <<node, files, dirs, buf, scene, session_vars, edit_vars>>

ShotManager_validate_shot_codes ==
  /\ calls < MaxCalls
  /\ calls' = calls + 1
  /\ pc' = "validate_shot_codes"
  /\ kwargs' = [clip |-> 0]
  /\ ret' = [status |-> "ok", value |-> validate_shot_codes(timeline)]
  /\ UNCHANGED <<node, files, dirs, buf, scene, session_vars, edit_vars>>

\* validate_shot_code of the ShotClip of one clip of the timeline
ShotClip_validate_shot_code ==
  /\ calls < MaxCalls
  /\ \E i \in 1..Len(timeline) :
       /\ kwargs' = [clip |-> i]
       /\ ret' = [status |-> validate_shot_code(timeline[i]), value |-> << >>]
  /\ calls' = calls + 1
  /\ pc' = "validate_shot_code"
  /\ UNCHANGED <<node, files, dirs, buf, scene, session_vars, edit_vars>>

\* notes of markers: shot codes with a prefix, three numbers and an ending,
\* well formed or not, one of them between blanks, and notes without a code
ShotCodeNotes ==
  {p \o <<"_">> \o a \o <<"_">> \o b \o <<"_">> \o c \o t :
     p \in {<<"F", "P">>, <<"F", "-">>}, a \in {<<"0", "0", "1">>, <<"0", "1">>}, b \in {<<"0", "0", "1">>, <<"0", "0", "1", "A">>, <<"0", "0", "1", "A", "B">>, <<"0", "0", "1", "a">>}, c \in {<<"0", "0", "1", "0">>, <<"0", "0", "1">>}, t \in {<< >>, <<"0">>}}
    \cup {<<" ", "F", "P", "_", "0", "0", "1", "_", "0", "0", "1", "_", "0", "0", "1", "0", " ">>, <<" ">>, << >>}

\* the notes of a timeline with many clips: two shot codes that are accepted,
\* one that is not, and a blank note
FewNotes == {<<"F", "P", "_", "0", "0", "1", "_", "0", "0", "1", "_", "0", "0", "1", "0">>, <<"F", "P", "_", "0", "0", "1", "_", "0", "0", "1", "A", "_", "0", "0", "1", "0">>, <<"F", "P", "_", "0", "1", "_", "0", "0", "1", "_", "0", "0", "1", "0">>, <<" ">>}

ClipsWith(notes) ==
  {[marker |-> TRUE, note |-> n] : n \in notes} \cup {[marker |-> FALSE, note |-> << >>]}

InitTimeline ==
  /\ timeline \in SeqsUpTo(ClipsWith(FewNotes), MaxShots)
                    \cup SeqsUpTo(ClipsWith(ShotCodeNotes), MaxClips)
  /\ clip = None
  /\ tasks = None
  /\ kwargs = [clip |-> 0]
  /\ ret = [status |-> None, value |-> << >>]
  /\ pc = "ready"
  /\ calls = 0
  /\ node = None
  /\ files = << >>
  /\ dirs = {}
  /\ buf = << >>
  /\ scene = None
  /\ NoSession

SpecTimeline ==
  InitTimeline /\ [][\/ ShotManager_check_duplicate_shots
                     \/ ShotManager_validate_shot_codes
                     \/ ShotClip_validate_shot_code]_vars

(***************************************************************************)
(* The status menu of the task tree view (anima/ui/views/task.py).  A task *)
(* has a status, a parent (0: none) and the tasks it depends on; the       *)
(* session lists the tasks added to it and holds the committed statuses.   *)
(***************************************************************************)
TaskIds == 1..MaxTasks

\* task.is_leaf: no task has it as parent
is_leaf(tk, t) == \A u \in DOMAIN tk : tk[u].parent # t

\* task.dependent_of: the tasks that depend on it
dependent_of(tk, t) == {u \in DOMAIN tk : t \in tk[u].depends}

RECURSIVE change_status_of_every_selected(_, _, _, _)
\* the status is given to every selected task
change_status_of_every_selected(tk, session, selected, status) ==
  IF selected = << >> THEN [tasks |-> tk, DBSession |-> session]
  ELSE LET task == Head(selected)
           changed == [tk EXCEPT ![task].status = status]
       IN change_status_of_every_selected(
            changed,
            [added |-> Append(session.added, task),
             committed |-> [t \in DOMAIN tk |-> changed[t].status]],
            Tail(selected), status)

RECURSIVE change_status(_, _, _, _)
\* the loop of lines 786-800 over the selected tasks: the tasks and the
\* session after it
change_status(tk, session, selected, status) ==
  IF selected = << >> THEN [tasks |-> tk, DBSession |-> session]
  ELSE LET task == Head(selected)
       IN IF is_leaf(tk, task) /\ dependent_of(tk, task) = {}
          THEN LET changed == [tk EXCEPT ![task].status = status]
               IN change_status(
                    changed,
                    [added |-> Append(session.added, task),
                     committed |-> [t \in DOMAIN tk |-> changed[t].status]],
                    Tail(selected), status)
          ELSE change_status(tk, session, Tail(selected), status)

\* the codes of the status menu
StatusCodes == {"WIP", "CMPL"}

\* TaskTreeView.show_context_menu when a status of the status menu is
\* chosen, lines 775-800, with the tasks selected in the tree
TaskTreeView_change_status ==
  /\ pc = "ready"
  /\ \E selection \in SUBSET TaskIds, status \in StatusCodes :
       LET done == change_status(tasks, DBSession, sorted(selection), status)
       IN /\ kwargs' = [selected |-> selection, status |-> status]
          /\ tasks' = done.tasks
          /\ DBSession' = done.DBSession
  /\ pc' = "change_status"
  /\ ret' = [status |-> "ok"]
  /\ UNCHANGED <<node, files, dirs, calls, buf, scene, staging, timeline, clip>>

\* a task has no parent or an earlier task as parent, and depends on no task
\* or on one earlier task that is none of its ancestors
RECURSIVE Ancestry(_, _)
Ancestry(parent, t) == IF parent[t] = 0 THEN {} ELSE {parent[t]} \cup Ancestry(parent, parent[t])

TaskTrees ==
  {tk \in [TaskIds -> [status : {"RTS", "WIP"},
                       parent : 0..(MaxTasks - 1),
                       depends : {{}} \cup {{u} : u \in TaskIds}]] :
     \A t \in TaskIds :
       /\ tk[t].parent < t
       /\ \A u \in tk[t].depends :
            /\ u < t
            /\ u \notin Ancestry([x \in TaskIds |-> tk[x].parent], t)}

InitTasks ==
  /\ tasks \in TaskTrees
  /\ DBSession = [added |-> << >>, committed |-> [t \in TaskIds |-> tasks[t].status]]
  /\ kwargs = [selected |-> {}, status |-> None]
  /\ ret = [status |-> None]
  /\ pc = "ready"
  /\ staging = None
  /\ timeline = None
  /\ clip = None
  /\ node = None
  /\ files = << >>
  /\ dirs = {}
  /\ calls = 0
  /\ buf = << >>
  /\ scene = None

SpecTasks == InitTasks /\ [][TaskTreeView_change_status]_vars

(***************************************************************************)
(* Maya.fix_reference_namespaces.  The files are numbered; file 0 is the   *)
(* scene that is open.  scene.children[f] lists the references inside file *)
(* f, so a file referenced at several places has the same references at    *)
(* each of them.  A reference is named by its place: the indices that lead *)
(* to it from the scene.  The path of a reference is the number of its     *)
(* file, and every referenced file is the latest published version of its  *)
(* task before the call.                                                   *)
(***************************************************************************)
FileIds == 1..MaxFiles

RECURSIVE file_at(_, _)
\* ref.path: the file of the reference at place id
file_at(sc, id) ==
  IF id = << >> THEN 0
  ELSE sc.children[file_at(sc, SubSeq(id, 1, Len(id) - 1))][id[Len(id)]].version

\* pm.listReferences(ref): the references inside the reference at place id
child_references(sc, id) ==
  [j \in 1..Len(sc.children[file_at(sc, id)]) |-> Append(id, j)]

\* child_ref.namespace
namespace_at(sc, id) ==
  sc.children[file_at(sc, SubSeq(id, 1, Len(id) - 1))][id[Len(id)]].namespace

RECURSIVE references_below(_, _)
\* pm.listReferences(recursive=1) from the reference at place id: each
\* reference followed by the references inside it
references_below(sc, id) ==
  JoinSeqs([j \in 1..Len(sc.children[file_at(sc, id)]) |->
              <<Append(id, j)>> \o references_below(sc, Append(id, j))])

\* lines 1913-1923: the references, last listed first, that have a child
\* reference with a namespace of the old style
to_update_list(sc) ==
  SelectSeq(reversed(references_below(sc, << >>)),
            LAMBDA ref : \E j \in 1..Len(child_references(sc, ref)) :
                           old_namespace_match(namespace_at(sc, child_references(sc, ref)[j])))

RECURSIVE with_parents(_, _, _)
\* lines 1935-1941: the paths after the parents of the reference at place id
\* are added
with_parents(sc, paths, id) ==
  IF Len(id) <= 1 THEN paths
  ELSE LET parent_ref == SubSeq(id, 1, Len(id) - 1)
           path == file_at(sc, parent_ref)
       IN with_parents(sc, IF InList(paths, path) THEN paths ELSE Append(paths, path),
                       parent_ref)

RECURSIVE to_update_paths(_, _, _)
\* lines 1928-1941: the paths to update, from the list of references
to_update_paths(sc, list, paths) ==
  IF list = << >> THEN paths
  ELSE LET ref == Head(list)
           path == file_at(sc, ref)
       IN IF InList(paths, path)
          THEN to_update_paths(sc, Tail(list), paths)
          ELSE to_update_paths(sc, Tail(list), with_parents(sc, Append(paths, path), ref))

\* a reference inside file f, at any depth, has a namespace of the old style
\* (lines 1788-1792, in the file as it was saved)
old_namespace_below(sc, f) ==
  LET at_f == [sc EXCEPT !.children[0] = sc.children[f]]
      refs == references_below(at_f, << >>)
  IN \E i \in 1..Len(refs) : old_namespace_match(namespace_at(at_f, refs[i]))

CreatedFor(created, f) == {k \in 1..Len(created) : created[k].path = f}

\* update_reference_edits on the file of a path, lines 1975-1991, after the
\* versions of created were made: the first-level references to files that
\* got a new version are updated to it and the first-level namespaces are
\* renamed; a new version is made when something changed.  It is stale when
\* a namespace of the old style is left inside one of its references.
fixed_version(sc, created, path) ==
  LET refs == sc.children[path]
      fixed(j) == CreatedFor(created, refs[j].version) # {}
      updated_namespaces ==
        old_namespace_below(sc, path) \/ \E j \in 1..Len(refs) : fixed(j)
      stale ==
        \E j \in 1..Len(refs) :
          IF fixed(j)
          THEN \E k \in CreatedFor(created, refs[j].version) : created[k].stale
          ELSE old_namespace_below(sc, refs[j].version)
  IN IF updated_namespaces
     THEN Append(created, [path |-> path, stale |-> stale])
     ELSE created

RECURSIVE created_versions(_, _, _)
\* the loop of lines 1963-1994 over the paths
created_versions(sc, paths, created) ==
  IF paths = << >> THEN created
  ELSE created_versions(sc, Tail(paths), fixed_version(sc, created, Head(paths)))

Maya_fix_reference_namespaces ==
  /\ pc = "ready"
  /\ LET paths == to_update_paths(scene, to_update_list(scene), << >>)
         created == created_versions(scene, paths, << >>)
     IN /\ scene' = [scene EXCEPT !.to_update_paths = paths,
                                  !.opened = IF paths = << >> THEN << >>
                                             ELSE Append(paths, 0)]
        /\ ret' = [status |-> "ok", value |-> created]
  /\ pc' = "fix_reference_namespaces"
  /\ UNCHANGED not_maya_vars

\* the references inside a file: at most MaxRefs references to later files,
\* each with the namespace of today or of the past
ReferencesInside(f, old_style) ==
  LET targets == {S \in SUBSET {g \in FileIds : g > f} : Cardinality(S) <= MaxRefs}
      with_namespaces(vs) ==
        {refs \in [1..Len(vs) -> ReferencesTo(FileIds)] :
           \A j \in 1..Len(vs) :
             /\ refs[j].version = vs[j]
             /\ old_style \/ refs[j].namespace = nice_name(vs[j])}
  IN UNION {with_namespaces(sorted(S)) : S \in targets}

RECURSIVE ChildrenTables(_)
\* the references inside each of the files f..MaxFiles; the first-level
\* references of the scene have the namespaces of today
ChildrenTables(f) ==
  IF f > MaxFiles THEN {<< >>}
  ELSE {(f :> refs) @@ ch : refs \in ReferencesInside(f, f # 0), ch \in ChildrenTables(f + 1)}

InitFix ==
  /\ scene \in [children : ChildrenTables(0), to_update_paths : {<< >>}, opened : {<< >>}]
  /\ kwargs = [path |-> << >>]
  /\ ret = [status |-> None, value |-> << >>]
  /\ pc = "ready"
  /\ node = None
  /\ files = << >>
  /\ dirs = {}
  /\ calls = 0
  /\ buf = << >>
  /\ NoSession /\ NoEdit

SpecFix == InitFix /\ [][Maya_fix_reference_namespaces]_vars

(***************************************************************************)
(* The Buffer class of h2a.py.  buf is the object: its counter i, its list *)
(* str_buffer, the text written to file_str and str_buffer_size; appended  *)
(* is the history of the items given to append.  A text is the sequence of *)
(* its characters.                                                         *)
(***************************************************************************)
BufferItems == {1, 2, 12}

\* `data`: the repr of an item
repr(data) ==
  CASE data = 1 -> <<"1">>
    [] data = 2 -> <<"2">>
    [] data = 12 -> <<"1", "2">>

RECURSIVE join_with_blank(_)
\* ' '.join(list)
join_with_blank(list) ==
  IF list = << >> THEN << >>
  ELSE IF Len(list) = 1 THEN Head(list)
  ELSE Head(list) \o <<" ">> \o join_with_blank(Tail(list))

\* Buffer.flush, lines 39-44
flush(b) ==
  [b EXCEPT !.file_str = @ \o join_with_blank(b.str_buffer),
            !.str_buffer = << >>,
            !.i = 0]

\* Buffer.append, lines 46-54: self_i is a local name, self.i is not set
append(b, data) ==
  LET self_i == b.i + 1
      flushed == IF self_i = b.str_buffer_size THEN flush(b) ELSE b
  IN [flushed EXCEPT !.str_buffer = Append(@, repr(data))]

Buffer_append ==
  /\ Len(buf.appended) < MaxAppends
  /\ \E data \in BufferItems :
       /\ buf' = [append(buf, data) EXCEPT !.appended = Append(@, data)]
       /\ kwargs' = [data |-> data]
  /\ pc' = "append"
  /\ ret' = [status |-> "ok", value |-> << >>]
  /\ UNCHANGED <<node, files, dirs, calls, scene, session_vars, edit_vars>>

Buffer_flush ==
  /\ buf' = flush(buf)
  /\ kwargs' = [data |-> 0]
  /\ pc' = "flush"
  /\ ret' = [status |-> "ok", value |-> << >>]
  /\ UNCHANGED <<node, files, dirs, calls, scene, session_vars, edit_vars>>

\* Buffer.getvalue, lines 56-61: a last flush, then the text of file_str
Buffer_getvalue ==
  /\ buf' = flush(buf)
  /\ kwargs' = [data |-> 0]
  /\ pc' = "getvalue"
  /\ ret' = [status |-> "ok", value |-> flush(buf).file_str]
  /\ UNCHANGED <<node, files, dirs, calls, scene, session_vars, edit_vars>>

\* Buffer(str_buffer_size), lines 32-38
InitBuffer ==
  /\ buf \in [i : {0}, str_buffer : {<< >>}, file_str : {<< >>},
              str_buffer_size : 1..MaxBufferSize, appended : {<< >>}]
  /\ kwargs = [data |-> 0]
  /\ ret = [status |-> None, value |-> << >>]
  /\ pc = "ready"
  /\ node = None
  /\ files = << >>
  /\ dirs = {}
  /\ calls = 0
  /\ scene = None
  /\ NoSession /\ NoEdit

SpecBuffer == InitBuffer /\ [][Buffer_append \/ Buffer_flush \/ Buffer_getvalue]_vars

(***************************************************************************)
(* ShotClip.create_shot_hierarchy: the tasks of a shot and their           *)
(* dependencies.  tasks holds the tasks as the session has them in memory, *)
(* DBSession.committed what the database holds.  Setting the dependencies  *)
(* of a task raises StatusError unless its status is WFD or RTS.           *)
(***************************************************************************)
ShotTaskNames == {"Anim", "Camera", "Cleanup", "Comp", "Lighting", "Plate"}

\* lines 455-489: the assignments of dependencies, in their order
DependencyAssignments ==
  << [task |-> "Camera", depends |-> {"Plate"}],
     [task |-> "Anim", depends |-> {"Camera"}],
     [task |-> "Lighting", depends |-> {"Anim", "Camera"}],
     [task |-> "Cleanup", depends |-> {"Plate"}],
     [task |-> "Comp", depends |-> {"Lighting", "Plate"}] >>

\* the task is looked up and, when there is none, made, added and committed
\* (lines 316-422); the status of the plate task is set to CMPL (444-451)
with_shot_tasks(tk) ==
  [n \in ShotTaskNames |->
     IF n = "Plate"
     THEN [exists |-> TRUE, status |-> "CMPL", depends |-> IF tk[n].exists THEN tk[n].depends ELSE {}]
     ELSE IF tk[n].exists THEN tk[n]
     ELSE [exists |-> TRUE, status |-> "WFD", depends |-> {}]]

\* task.depends = [...] raises StatusError
raises_StatusError(task) == task.status \notin {"WFD", "RTS"}

RECURSIVE assign_dependencies(_, _, _, _)
\* the try blocks of lines 456-489 from the k-th on: the tasks in memory and
\* the assignments that raised; DBSession.rollback() brings every task back
\* to what is committed
assign_dependencies(memory, committed, raised, k) ==
  IF k > Len(DependencyAssignments) THEN [tasks |-> memory, raised |-> raised]
  ELSE LET a == DependencyAssignments[k]
       IN IF raises_StatusError(memory[a.task])
          THEN assign_dependencies(committed, committed, raised \cup {a.task}, k + 1)
          ELSE assign_dependencies([memory EXCEPT ![a.task].depends = a.depends],
                                   committed, raised, k + 1)

ShotClip_create_shot_hierarchy ==
  /\ pc = "ready"
  /\ LET made == with_shot_tasks(tasks)
         done == assign_dependencies(made, made, {}, 1)
     IN /\ tasks' = done.tasks
        /\ DBSession' = [committed |-> done.tasks]
        /\ ret' = [status |-> "ok", raised |-> done.raised]
  /\ pc' = "create_shot_hierarchy"
  /\ UNCHANGED <<node, kwargs, files, dirs, calls, buf, scene, staging, timeline, clip>>

\* a task of the shot before the call: none yet, or there from an earlier
\* call, open or being worked on, with the dependencies of that call or none
ShotTaskBefore(n) ==
  LET given == {DependencyAssignments[k].depends :
                  k \in {i \in 1..Len(DependencyAssignments) :
                           DependencyAssignments[i].task = n}}
  IN {[exists |-> FALSE, status |-> "WFD", depends |-> {}]}
       \cup [exists : {TRUE}, status : {"RTS", "WIP"}, depends : {{}} \cup given]

ShotTasksBefore ==
  {[Anim |-> a, Camera |-> c, Cleanup |-> cl, Comp |-> co, Lighting |-> l, Plate |-> p] :
     a \in ShotTaskBefore("Anim"), c \in ShotTaskBefore("Camera"),
     cl \in ShotTaskBefore("Cleanup"), co \in ShotTaskBefore("Comp"),
     l \in ShotTaskBefore("Lighting"), p \in ShotTaskBefore("Plate")}

InitShot ==
  /\ tasks \in ShotTasksBefore
  /\ DBSession = [committed |-> tasks]
  /\ staging = None
  /\ kwargs = [clip |-> 0]
  /\ ret = [status |-> None, raised |-> {}]
  /\ pc = "ready"
  /\ timeline = None
  /\ clip = None
  /\ node = None
  /\ files = << >>
  /\ dirs = {}
  /\ calls = 0
  /\ buf = << >>
  /\ scene = None

SpecShot == InitShot /\ [][ShotClip_create_shot_hierarchy]_vars

(***************************************************************************)
(* Claims about the exporters.                                             *)
(***************************************************************************)
\* the tangent-extended points of curve c in the sample of attribute name
CurveWithTangents(geo, name, c) ==
  PackedValues(name, 3 * FirstVertex(geo, c), 3)
    \o PackedValues(name, 3 * FirstVertex(geo, c), 3 * geo.prims[c])
    \o PackedValues(name, 3 * (FirstVertex(geo, c) + geo.prims[c] - 1), 3)

SampleWithTangents(geo, name) ==
  JoinSeqs([c \in 1..Len(geo.prims) |-> CurveWithTangents(geo, name, c)])

AfterCurves == pc = "curves2ass"
AfterPolygon == pc = "polygon2ass"
Motion == kwargs.export_motion
Uniform(geo) == \A c \in 1..Len(geo.prims) : geo.prims[c] = geo.prims[1]

\* C1: for every curve with n real points curves2ass emits the first point,
\* the n points and the last point again, writes n + 2 as its num_points entry
\* and declares real_point_count + 2 * curve_count points; with export_motion
\* this holds for the P sample and for the pprime sample.
C1_TangentPointsPerCurve ==
  (AfterCurves /\ ret.status = "ok") =>
    /\ ret.raw_point_positions =
         (IF Motion
          THEN SampleWithTangents(node.geo, "P") \o SampleWithTangents(node.geo, "pprime")
          ELSE SampleWithTangents(node.geo, "P"))
    /\ ret.number_of_points_per_curve =
         extend_for_motion([c \in 1..Len(node.geo.prims) |-> node.geo.prims[c] + 2], Motion)
    /\ ret.headers.points[1] = pointcount(node.geo) + 2 * primitivecount(node.geo)

\* the sample counts of all the headers of an export
HeaderSamples(r) == {r.headers[h][2] : h \in DOMAIN r.headers}

\* what C2 says of the buffers: two copies of what the export without motion
\* writes, gathered positions P followed by pprime; one copy without motion
C2_Buffers ==
  /\ (AfterCurves /\ ret.status = "ok") =>
       LET single == curves2ass(node.geo, FALSE)
           copies(x) == IF Motion THEN x \o x ELSE x
       IN /\ ret.matrix = copies(identity_matrix)
          /\ ret.radius = copies(single.radius)
          /\ ret.uparamcoord = copies(single.uparamcoord)
          /\ ret.vparamcoord = copies(single.vparamcoord)
          /\ ret.number_of_points_per_curve = copies(single.number_of_points_per_curve)
          /\ ret.gathered_point_positions =
               (IF Motion
                THEN pointFloatAttribValuesAsString(node.geo, "P", 3)
                       \o pointFloatAttribValuesAsString(node.geo, "pprime", 3)
                ELSE pointFloatAttribValuesAsString(node.geo, "P", 3))
  /\ AfterPolygon =>
       /\ ret.matrix = (IF Motion THEN identity_matrix \o identity_matrix ELSE identity_matrix)
       /\ ret.raw_point_positions =
            (IF Motion
             THEN pointFloatAttribValuesAsString(node.geo, "P", 3)
                    \o pointFloatAttribValuesAsString(node.geo, "pprime", 3)
             ELSE pointFloatAttribValuesAsString(node.geo, "P", 3))

\* C2 as stated: with export_motion every buffer header of curves2ass and of
\* polygon2ass carries sample count 2 instead of 1, and the buffers are doubled.
C2_EveryHeaderCarriesSampleCount ==
  /\ ((AfterCurves \/ AfterPolygon) /\ ret.status = "ok") =>
       HeaderSamples(ret) = {IF Motion THEN 2 ELSE 1}
  /\ C2_Buffers

\* C2 amended: with export_motion every header of curves2ass and the vlist
\* header of polygon2ass carry sample count 2 (1 without it), the nsides and
\* vidxs headers of polygon2ass carry 1 in both cases; matrix, radius,
\* uparamcoord, vparamcoord and the per-curve point counts are two copies of
\* what the export without motion writes, and the gathered positions are P
\* followed by pprime; without export_motion there is one copy.
C2_MotionDoublesSamples ==
  /\ (AfterCurves /\ ret.status = "ok") => HeaderSamples(ret) = {IF Motion THEN 2 ELSE 1}
  /\ AfterPolygon =>
       /\ ret.headers.vlist[2] = (IF Motion THEN 2 ELSE 1)
       /\ ret.headers.nsides[2] = 1
       /\ ret.headers.vidxs[2] = 1
  /\ C2_Buffers

C2_Witness ==
  /\ AfterCurves /\ Motion /\ ret.status = "ok"
  /\ Len(node.geo.prims) = 2
  /\ Len(ret.radius) = 2 * Len(ret.encoded_radius)
  /\ Len(ret.matrix) = 8

\* C5: with zero primitives both exporters return a structurally valid cache
\* (zero counts, empty buffers) and raise no error.
C5_EmptyGeometryExports ==
  ((AfterCurves \/ AfterPolygon) /\ primitivecount(node.geo) = 0) =>
    /\ ret.status = "ok"
    /\ \A h \in DOMAIN ret.headers : h # "matrix" => ret.headers[h][1] = 0
    /\ ret.point_positions = << >>

\* C6: when the position buffer of curves2ass is no whole number of per-curve
\* blocks, an error is raised and no shortened buffer is emitted.
C6_NoSilentTruncation ==
  AfterCurves =>
    LET n == pointcount(node.geo) \div primitivecount(node.geo)
        gathered == (IF Motion THEN 2 ELSE 1) * PointBytes * pointcount(node.geo)
    IN (primitivecount(node.geo) > 0 /\ gathered % (n * PointBytes) # 0) => ret.status # "ok"

\* the newlines of a text, where its lines start and where the line that
\* starts at s ends (the position after its last character)
NewlinesOf(text) == {i \in 1..Len(text) : text[i] = NL}
LineStarts(text) == {1} \cup {i + 1 : i \in NewlinesOf(text)}
LineEnd(text, s) ==
  LET after == {j \in NewlinesOf(text) : j >= s}
  IN IF after = {} THEN Len(text) + 1
     ELSE CHOOSE j \in after : \A k \in after : j <= k
NotNewline(ch) == ch # NL

\* a payload is written in lines of at most 500 characters, only its last
\* line may be shorter, and its lines put together are the encoded string
ChunkedAt500(payload, encoded) ==
  /\ \A s \in LineStarts(payload) :
       /\ LineEnd(payload, s) - s <= ChunkWidth
       /\ LineEnd(payload, s) <= Len(payload) => LineEnd(payload, s) - s = ChunkWidth
  /\ SelectSeq(payload, NotNewline) = encoded

\* C3: every base85 payload of curves2ass and polygon2ass is written in lines
\* of at most 500 characters, only the final line may be shorter, and the
\* lines put together give back the encoded string, with and without motion.
C3_PayloadsChunkedAt500 ==
  /\ (AfterCurves /\ ret.status = "ok") =>
       /\ ChunkedAt500(ret.point_positions, ret.encoded_point_positions)
       /\ ChunkedAt500(ret.radius, extend_for_motion(ret.encoded_radius, Motion))
       /\ ChunkedAt500(ret.uparamcoord, extend_for_motion(ret.encoded_u, Motion))
       /\ ChunkedAt500(ret.vparamcoord, extend_for_motion(ret.encoded_v, Motion))
  /\ AfterPolygon => ChunkedAt500(ret.point_positions, ret.encoded_point_positions)

\* C9: without a 'width' point attribute the radius buffer is the packed width
\* of every vertex of every primitive, in primitive order and then vertex
\* order: the flush of the string buffer loses, repeats or moves no value.
C9_RadiusWalkKeepsEveryWidth ==
  (AfterCurves /\ ret.status = "ok" /\ ~node.geo.has_width) =>
    ret.raw_radius = PackedValues("width", 0, vertexcount(node.geo))

\* a walk of several curves that flushed a filled buffer before its last curve
C9_Witness ==
  /\ AfterCurves /\ ret.status = "ok" /\ ~node.geo.has_width
  /\ Len(node.geo.prims) >= 2
  /\ pointcount(node.geo) \div Len(node.geo.prims) < RadiusFlushLimit
  /\ (pointcount(node.geo) \div Len(node.geo.prims)) * Len(node.geo.prims) >= RadiusFlushLimit
  /\ Len(ret.raw_radius) = FloatBytes * vertexcount(node.geo)

(***************************************************************************)
(* Claims about geometry2ass.                                              *)
(***************************************************************************)
Returned == pc = "geometry2ass" /\ ret.status = "ok"
SecondInputConnected == Len(node.inputs) >= 2 /\ node.inputs[2].connected
CompanionPath == asstoc_path_of(kwargs.path)

\* min x, min y, min z, max x, max y, max z of a box
BoundsRecord(b) == <<"bounds", b.xmin, b.ymin, b.zmin, b.xmax, b.ymax, b.zmax>>

Ext(p) == splitext(p)[2]
Root(p) == splitext(p)[1]
DotGz == <<".", "g", "z">>
EndsWith(p, tail) == Len(p) >= Len(tail) /\ SubSeq(p, Len(p) - Len(tail) + 1, Len(p)) = tail

\* C8: both files follow from the target path alone: the body is gzipped
\* exactly when the last extension is '.gz'; the companion path is the path
\* without a trailing '.gz', without its last remaining extension, plus
\* '.asstoc'; 'x.ass' and 'x.ass.gz' give the same companion; calling again
\* with the same path writes the same two files.
C8_FilesFollowFromPath ==
  Returned =>
    /\ DOMAIN files = {normpath(kwargs.path), CompanionPath}
    /\ files[normpath(kwargs.path)].gzip = (Ext(kwargs.path) = DotGz)
    /\ files[normpath(kwargs.path)].gzip => EndsWith(kwargs.path, DotGz)
    /\ \E companion \in DOMAIN files :
         /\ companion = Root(IF Ext(kwargs.path) = DotGz THEN Root(kwargs.path)
                             ELSE kwargs.path) \o asstoc_suffix
         /\ (Ext(kwargs.path) \notin {<< >>, DotGz})
              => asstoc_path_of(kwargs.path \o DotGz) = companion
         /\ files[companion].gzip = FALSE

\* a second call with a path of two extensions, the last of them '.gz'
C8_Witness ==
  /\ Returned /\ calls = 2
  /\ Ext(kwargs.path) = DotGz
  /\ Ext(Root(kwargs.path)) # << >>
  /\ files[normpath(kwargs.path)].gzip

(***************************************************************************)
(* Claims about the base85 codec.                                          *)
(***************************************************************************)
\* C7: for every buffer whose length is a multiple of 4, decoding the output
\* of the encoder gives back exactly the buffer.
C7_DecodeInvertsEncode ==
  /\ (pc = "encoded" /\ Len(buf) % 4 = 0) => ret.status = "ok"
  /\ pc = "decoded" => ret.decoded = buf

C7_Witness ==
  /\ pc = "decoded"
  /\ Len(buf) = 8
  /\ buf[1] = 255 /\ buf[5] = 84
  /\ ret.decoded = buf

(***************************************************************************)
(* Claims about the reference resolution.                                  *)
(***************************************************************************)
RECURSIVE ReferencedFrom(_, _)
\* the versions referenced from the versions of S, at any depth
ReferencedFrom(sc, S) ==
  LET more == S \cup UNION {sc.inputs[v] : v \in S}
  IN IF more = S THEN S ELSE ReferencedFrom(sc, more)

ListsOf(res, v) == {k \in {"leave", "update", "create"} : InList(res[k], v)}
Resolved == pc \in {"check_referenced_versions", "open"}

\* C10: in the resolution returned by check_referenced_versions, and by open
\* when the update check is not skipped, every version the scene references,
\* at any depth, is in exactly one of the lists leave, update and create.
C10_EachReferenceInOneList ==
  Resolved => \A v \in ReferencedFrom(scene, scene.top) : Cardinality(ListsOf(ret, v)) = 1

\* all three lists are in use, one of them for a reference below the top level
C10_Witness ==
  /\ pc = "open"
  /\ ret.leave # << >> /\ ret.update # << >> /\ ret.create # << >>
  /\ \E v \in ReferencedFrom(scene, scene.top) \ scene.top : Cardinality(ListsOf(ret, v)) = 1

Referenced == ReferencedFrom(scene, scene.top)
\* the versions that reference v, at any depth
Ancestors(sc, v) == {a \in Versions : v \in ReferencedFrom(sc, sc.inputs[a])}
\* no version below v has a newer version
NothingNewerBelow(sc, v) == \A w \in ReferencedFrom(sc, sc.inputs[v]) : ~sc.newer[w]

IndexOf(list, v) == CHOOSE i \in 1..Len(list) : list[i] = v

\* C12: in each list of the resolution a version comes after every version it
\* references, directly or through other versions, that is in the same list.
C12_DeepestFirstInEachList ==
  Resolved => \A k \in {"leave", "update", "create"} : \A a, b \in Referenced :
    (/\ b \in ReferencedFrom(scene, scene.inputs[a])
     /\ InList(ret[k], a) /\ InList(ret[k], b))
      => IndexOf(ret[k], b) < IndexOf(ret[k], a)

\* a list holds a version and one it references, the referenced one having
\* the higher number
C12_Witness ==
  /\ Resolved
  /\ \E k \in {"leave", "update", "create"} : \E a, b \in Referenced :
       /\ b \in scene.inputs[a]
       /\ InList(ret[k], a) /\ InList(ret[k], b)
       /\ IndexOf(ret[k], b) < IndexOf(ret[k], a)

(***************************************************************************)
(* Claims about the replay of the reference edits.                         *)
(***************************************************************************)
\* update_reference_edits found a namespace of the past and replayed the edits
Replayed == pc = "update_reference_edits" /\ scene.edits_dictionary # << >>

\* the references as listed for the replay, last one first
ReplayListing == reversed(listReferences_recursive(scene))

\* the edits evaluated for place i of the listing, in the order evaluated
EvaluatedAt(i) ==
  LET es == SelectSeq(scene.evaluated, LAMBDA e : e.place = i)
  IN [k \in 1..Len(es) |-> es[k].edit]

Occurs(t, s) == \E p \in 1..Len(s) : StartsWithAt(s, t, p)

\* what the three edits of EditsOn are with the namespace new_namespace
ExpectedEdits(new_namespace) ==
  << <<"s", " ", "|">> \o new_namespace \o <<":", "n">>,
     <<"p", " ", "x">>,
     <<"c", " ", "|", "x">> >>

\* C13 as stated: the edits evaluated are exactly the recorded edits in which
\* the recorded namespace occurs, with the new namespace substituted for it;
\* an edit in which it does not occur is not evaluated.
C13_OnlyEditsWithOldNamespaceEvaluated ==
  Replayed => \A i \in 1..Len(ReplayListing) :
    i <= Len(scene.edits_dictionary) =>
      LET old_namespace == scene.edits_dictionary[i].namespace
          new_namespace == fullNamespace(scene, ReplayListing[i])
          matching == SelectSeq(scene.edits_dictionary[i].edits,
                                LAMBDA e : Occurs(old_namespace, e))
      IN EvaluatedAt(i) =
           [k \in 1..Len(matching) |-> replace(matching[k], old_namespace, new_namespace)]

\* C13: every recorded edit is evaluated, in the recorded order, unless it is
\* one of the external edits after rewriting: an edit in which the recorded
\* namespace occurs is evaluated with the new namespace in its place, an edit
\* in which it does not occur is evaluated as recorded, and in both "|:" is
\* written as "|".
C13_EveryRecordedEditRewrittenAndEvaluated ==
  Replayed => \A i \in 1..Len(ReplayListing) :
    EvaluatedAt(i) =
      (IF i > Len(scene.edits_dictionary) THEN << >>
       ELSE IF scene.edits_dictionary[i].edits = << >> THEN << >>
       ELSE SelectSeq(ExpectedEdits(fullNamespace(scene, ReplayListing[i])),
                      LAMBDA e : e \notin scene.external))

\* the edits of a reference whose namespace was renamed are evaluated: the
\* one of its namespace rewritten, the one without a namespace as recorded
C13_Witness ==
  /\ Replayed
  /\ \E i \in 1..Len(ReplayListing) :
       /\ i <= Len(scene.edits_dictionary)
       /\ scene.edits_dictionary[i].edits # << >>
       /\ scene.edits_dictionary[i].namespace # fullNamespace(scene, ReplayListing[i])
       /\ Len(EvaluatedAt(i)) = 3
       /\ EvaluatedAt(i)[2] = <<"p", " ", "x">>
       /\ Occurs(fullNamespace(scene, ReplayListing[i]), EvaluatedAt(i)[1])

(***************************************************************************)
(* Claims about save_as and the workspace file.                            *)
(***************************************************************************)
\* the step is a call of save_as
SaveAsCalled == pc' = "save_as" /\ calls' = calls + 1
\* the path is absolute and outside every repository
External(path) == isabs(path) /\ ~is_in_repo(path)
\* node i named an external file before the call and was not given a copy
NotCopied(i) ==
  /\ External(scene.nodes[i].path)
  /\ scene'.nodes[i].path = scene.nodes[i].path
\* the call saved nothing and left the database session alone
NothingSaved ==
  /\ scene'.saved = scene.saved
  /\ DBSession'.added = DBSession.added
  /\ DBSession'.committed = DBSession.committed
\* where move_to_local copies the file of node i to
CopyOf(version, i) ==
  version.absolute_path
    \o <<"external_files", type_name_of(scene.nodes[i].type), basename(scene.nodes[i].path)>>

\* a call that gets as far as check_external_files with a node that names an
\* external file and is given no copy raises RuntimeError and saves nothing
BlockedInTheCall ==
  (SaveAsCalled /\ kwargs'.publishers = "ok"
     /\ \E i \in 1..Len(scene.nodes) : NotCopied(i))
    => (ret'.status = "RuntimeError" /\ ret'.step = "check_external_files" /\ NothingSaved)

\* C14 as stated: a node with an absolute path outside the repositories that
\* could not be copied makes save_as raise RuntimeError without saving the
\* scene or adding or committing the version, and the next save_as saves
\* nothing either while the path of the node is as it was.
C14_ExternalFileBlocksEverySave ==
  [][/\ BlockedInTheCall
     /\ (SaveAsCalled /\ pc = "save_as" /\ ret.step = "check_external_files"
           /\ \E k \in 1..Len(scene.selection) :
                External(scene.nodes[scene.selection[k]].path))
          => scene'.saved = scene.saved]_vars

\* C14: a node with an absolute path outside the repositories that could not
\* be copied makes save_as raise RuntimeError without saving the scene or
\* adding or committing the version; a later save_as fails the same way when
\* the file is again not copied, as it is whenever a file of its name is in
\* the external_files folder of the version saved.
C14_ExternalFileBlocksSaveWhileNotCopied ==
  [][/\ BlockedInTheCall
     /\ (SaveAsCalled /\ kwargs'.publishers = "ok"
           /\ \E i \in 1..Len(scene.nodes) :
                /\ External(scene.nodes[i].path)
                /\ CopyOf(kwargs'.version, i) \in DOMAIN files)
          => (ret'.status = "RuntimeError" /\ NothingSaved)]_vars

\* the second call was stopped by an external file, and nothing was saved or
\* committed by either call
C14_Witness ==
  /\ pc = "save_as" /\ calls = 2
  /\ ret.status = "RuntimeError" /\ ret.step = "check_external_files"
  /\ scene.selection # << >>
  /\ External(scene.nodes[scene.selection[1]].path)
  /\ scene.saved = << >> /\ DBSession.added = {} /\ DBSession.committed = {}

\* C16: create_workspace_file writes the fixed content to workspace.mel when
\* there is no such file and leaves a workspace.mel that exists as it is.
C16_WorkspaceFileWrittenOnlyWhenAbsent ==
  [][(pc' = "create_workspace_file" /\ calls' = calls + 1) =>
       LET full_path == kwargs'.path \o <<"workspace.mel">>
       IN /\ full_path \in DOMAIN files'
          /\ files'[full_path] = (IF full_path \in DOMAIN files THEN files[full_path]
                                  ELSE maya_workspace_file_content)
          /\ \A q \in DOMAIN files : q # full_path => files'[q] = files[q]]_vars

\* C19: when save_as is called with a published version and a pre-publisher
\* raises PublishError or RuntimeError, the staging area is cleared, that
\* error is raised, and the paths of the version, the nodes and selection of
\* the scene, the workspace, the files, the saved scenes and the database
\* session are as before the call.
C19_PrePublishErrorStopsSave ==
  [][(SaveAsCalled /\ kwargs'.version.is_published /\ kwargs'.run_pre_publishers
        /\ kwargs'.publishers \in {"PublishError", "RuntimeError"})
       => /\ ret'.status = kwargs'.publishers
          /\ staging' = {}
          /\ UNCHANGED <<scene, files, dirs, DBSession>>]_vars

\* a pre-publisher stopped the second call after the first call had saved
\* and committed another version
C19_Witness ==
  /\ pc = "save_as" /\ calls = 2
  /\ kwargs.version.is_published /\ kwargs.publishers = "PublishError"
  /\ ret.status = "PublishError"
  /\ staging = {}
  /\ scene.saved = <<<<"/", "repo", "t1", "v1.ma">>>>
  /\ DBSession.committed = {1} /\ DBSession.updated_paths = {1}

ReplacedBy(sc, i) == \E k \in 1..Len(sc.replaced) : sc.replaced[k].ref = <<i>>

Constructed == clip.class # None

\* C17: after every construction and every assignment to name and duration
\* of a Sequence, Clip or File, duration is a float that is at least 0 and
\* name is a string; a duration that is no number raises TypeError, a
\* negative one raises ValueError, None is stored as 0.0, a name that is no
\* string raises TypeError, and an assignment that raises leaves what was
\* stored.
C17_DurationNonNegativeFloatAndNameString ==
  [][/\ Constructed'
        => /\ clip'._duration.type = "float"
           /\ ~clip'._duration.nan /\ clip'._duration.value >= 0
           /\ clip'._name.type = "str"
     /\ pc' \in {"__init__", "duration"}
        => LET duration == kwargs'.duration
               name_accepted == pc' = "duration" \/ isinstance_str(kwargs'.name)
           IN /\ duration # PyNone /\ ~isinstance_int_float(duration)
                   => ret'.status = "TypeError"
              /\ isinstance_int_float(duration) /\ less_than_zero(duration) /\ name_accepted
                   => ret'.status = "ValueError"
              /\ duration = PyNone /\ name_accepted
                   => ret'.status = "ok" /\ clip'._duration = PyFloat(0)
     /\ pc' \in {"__init__", "name"} /\ ~isinstance_str(kwargs'.name)
        => ret'.status = "TypeError"
     /\ pc' \in {"__init__", "name", "duration"} /\ ret'.status # "ok"
        => clip' = clip]_vars

\* the whole shot code is word characters, "_", three digits, "_", three
\* digits and at most one uppercase letter, "_", four digits
OfTheForm(s) == (Len(s) + 1) \in regex_match_ends(s)

\* C18: validate_shot_code raises ValueError for every shot code that is not
\* of the form, and validate_shot_codes returns exactly the shots of the
\* timeline whose code is not of the form.
C18_ShotCodesNotOfTheFormRejected ==
  /\ pc = "validate_shot_code" /\ has_shot_code(timeline[kwargs.clip])
        /\ ~OfTheForm(shot_code(timeline[kwargs.clip]))
       => ret.status = "ValueError"
  /\ pc = "validate_shot_codes"
       => ret.value = SelectSeq(get_shots(timeline),
                                LAMBDA i : ~OfTheForm(shot_code(timeline[i])))

ShotCodes == [k \in 1..Len(get_shots(timeline)) |-> shot_code(timeline[get_shots(timeline)[k]])]

Count(list, c) == Cardinality({i \in 1..Len(list) : list[i] = c})

C21_StatusChangedOnlyOfFreeLeaves ==
  [][pc' = "change_status" =>
       /\ \A t \in TaskIds :
            tasks'[t].status # tasks[t].status
              => /\ t \in kwargs'.selected
                 /\ is_leaf(tasks, t)
                 /\ dependent_of(tasks, t) = {}
       /\ \A t \in kwargs'.selected :
            ~is_leaf(tasks, t) \/ dependent_of(tasks, t) # {}
              => /\ tasks'[t] = tasks[t]
                 /\ ~InList(DBSession'.added, t)
                 /\ DBSession'.committed[t] = DBSession.committed[t]]_vars

C21_Witness ==
  /\ pc = "change_status"
  /\ \E t, u, w \in kwargs.selected :
       /\ is_leaf(tasks, t) /\ dependent_of(tasks, t) = {}
       /\ tasks[t].status = "CMPL" /\ DBSession.committed[t] = "CMPL"
       /\ ~is_leaf(tasks, u) /\ tasks[u].status # "CMPL"
       /\ is_leaf(tasks, w) /\ dependent_of(tasks, w) # {} /\ tasks[w].status # "CMPL"

\* the references above the reference at place id
AncestorsOf(id) == {SubSeq(id, 1, n) : n \in 1..(Len(id) - 1)}

AllReferences == {references_below(scene, << >>)[i] :
                    i \in 1..Len(references_below(scene, << >>))}

HasOldStyleChild(id) ==
  \E j \in 1..Len(child_references(scene, id)) :
    old_namespace_match(namespace_at(scene, child_references(scene, id)[j]))

\* C22: after fix_reference_namespaces has built to_update_paths, the path of
\* every reference that has a child reference with an old-style namespace,
\* and the path of each of its ancestors, is in to_update_paths, in every
\* reference tree.
C22_PathsOfOldStyleParentsAndAncestorsListed ==
  pc = "fix_reference_namespaces"
    => \A id \in AllReferences :
         HasOldStyleChild(id)
           => \A a \in AncestorsOf(id) \cup {id} :
                InList(scene.to_update_paths, file_at(scene, a))

\* C23: to_update_paths holds no path twice, and the path of a reference
\* stands before the path of each of its ancestors.
C23_NoPathTwiceAndReferenceBeforeAncestors ==
  pc = "fix_reference_namespaces"
    => /\ \A i, j \in 1..Len(scene.to_update_paths) :
            i # j => scene.to_update_paths[i] # scene.to_update_paths[j]
       /\ \A id \in AllReferences : \A a \in AncestorsOf(id) :
            InList(scene.to_update_paths, file_at(scene, id))
              /\ InList(scene.to_update_paths, file_at(scene, a))
              => IndexOf(scene.to_update_paths, file_at(scene, id))
                   < IndexOf(scene.to_update_paths, file_at(scene, a))

\* C24: in update_reference_edits every edit evaluated in the replay pass is
\* evaluated for the reference it was recorded for before the update: the
\* reference at its place of the listing of the recording pass.
C24_EditsReplayedOnTheirOwnReference ==
  [][pc' = "update_reference_edits" /\ scene'.edits_dictionary # << >>
       => \A k \in 1..Len(scene'.evaluated) :
            reversed(listReferences_recursive(scene))[scene'.evaluated[k].place]
              = scene'.evaluated[k].ref]_vars

RECURSIVE Words(_, _)
\* the words of a text: what stands between its blanks; word is the one begun
Words(text, word) ==
  IF text = << >> THEN (IF word = << >> THEN << >> ELSE <<word>>)
  ELSE IF Head(text) = " "
       THEN (IF word = << >> THEN << >> ELSE <<word>>) \o Words(Tail(text), << >>)
       ELSE Words(Tail(text), Append(word, Head(text)))

C26_AssignmentsThatDidNotRaiseArePersisted ==
  pc = "create_shot_hierarchy"
    => \A k \in 1..Len(DependencyAssignments) :
         DependencyAssignments[k].task \notin ret.raised
           => DBSession.committed[DependencyAssignments[k].task].depends
                = DependencyAssignments[k].depends

====
